---------------------------- MODULE Spec2Model ----------------------------
(***************************************************************************)
(* Bet settlement state machine of the monad-flip contracts.               *)
(*                                                                         *)
(* The module models the coin-flip contracts of src/unnamed/part_007 and   *)
(* src/unnamed/part_006:                                                   *)
(*   CoinFlip    (pull-reveal: anyone calls revealResult)                   *)
(*   CoinFlipV2  (push-callback: the oracle calls entropyCallback)          *)
(*   MonadFlip   (push-callback, bets keyed by sequence number)             *)
(* The variable `contract` says which one is deployed; it is fixed by Init *)
(* and never changes.  Amounts are in units of 0.001 ether (the oracle     *)
(* fee of the mock oracle), time in seconds.                               *)
(***************************************************************************)
EXTENDS Integers, Sequences, FiniteSets, TLC

VARIABLES
    contract,           \* which contract is deployed
    owner,              \* address public owner
    minBet,             \* uint256 public minBet
    maxBet,             \* uint256 public maxBet
    houseFees,          \* uint256 public houseFees
    gameIdCounter,      \* uint256 public gameIdCounter
    games,              \* mapping(uint256 => Game) public games
    playerGames,        \* mapping(address => uint256[]) public playerGames
    sequenceToGameId,   \* mapping(uint64 => uint256) sequenceToGameId
    balance,            \* address(this).balance
    now,                \* block.timestamp
    blockNumber,        \* block.number, counted from deployment
    nextSeq,            \* the oracle's sequence counter
    requests,           \* the oracle's outstanding requests
    last,               \* outcome of the last transaction sent to the contract
    lastEvent,          \* the last event emitted for each game id (MonadFlip:
                        \* for each sequence number)
    stack,              \* the calls suspended in an external call (a transfer)
    feePercentage,      \* MonadFlip: uint256 public feePercentage
    minimumBet,         \* MonadFlip: uint256 public minimumBet
    maximumBet,         \* MonadFlip: uint256 public maximumBet
    paused,             \* MonadFlip: bool public paused
    locked,             \* MonadFlip: bool private locked
    maxConcurrentBets,  \* MonadFlip: uint256 public maxConcurrentBets
    activeBetsCount,    \* MonadFlip: uint256 public activeBetsCount
    bets,               \* MonadFlip: mapping(uint64 => Bet) public bets
    playerBets,         \* MonadFlip: mapping(address => uint64[]) playerBets
    commitments,        \* MonadFlipWithCommitReveal: mapping(address =>
                        \* Commitment) public commitments
    commitmentDuration, \* MonadFlipWithCommitReveal: uint256 public
    revealDeadline,     \* MonadFlipWithCommitReveal: uint256 public
    isFlipping,         \* CoinFlip.tsx: useState(false)
    currentGameId,      \* CoinFlip.tsx: useState<bigint | null>(null)
    statusMessage,      \* CoinFlip.tsx: what the status line reports
    transaction,        \* CoinFlip.tsx: useWriteContract and
                        \* useWaitForTransactionReceipt of the last bet
    delivered           \* GameResult logs the event watcher has been given

vars == << contract, owner, minBet, maxBet, houseFees, gameIdCounter, games,
           playerGames, sequenceToGameId, balance, now, blockNumber,
           nextSeq, requests, last, lastEvent, stack, feePercentage,
           minimumBet, maximumBet, paused, locked, maxConcurrentBets,
           activeBetsCount, bets, playerBets, commitments,
           commitmentDuration, revealDeadline, isFlipping, currentGameId,
           statusMessage, transaction, delivered >>

----------------------------------------------------------------------------
(* Bounds of the model *)

MaxGames == 1             \* accepted bets per behaviour while time passes
MaxBets == 3              \* accepted bets per behaviour within one block
MaxBlocks == 1            \* blocks mined after deployment
MaxFees == 3              \* no stray callback once houseFees reaches this
MaxBalance == 40          \* no deposit takes the balance above this
MaxHistory == 2           \* accepted bets per behaviour in the history runs
MaxStakeWei == 120        \* calculatePayout is asked about 1 .. MaxStakeWei wei

(* Program constants *)

HOUSE_FEE_PERCENT == 5
ONE_HOUR == 3600
EntropyFee == 1           \* fee charged by the oracle per request
FirstSequence == 1        \* first sequence number the oracle hands out
DefaultFeePercentage == 1000      \* MonadFlip, basis points
DefaultMinimumBet == 1            \* MonadFlip, 0.001 ether
DefaultMaximumBet == 10000        \* MonadFlip, 10 ether
DefaultMaxConcurrentBets == 100   \* MonadFlip
DefaultCommitmentDuration == 3600 \* MonadFlipWithCommitReveal, 1 hours
DefaultRevealDeadline == 86400    \* MonadFlipWithCommitReveal, 24 hours

(* Inputs *)

Zero == "0x0"
Deployer == "owner"
Bettor == "alice"
Players == {"alice", "bob"}
Addresses == {Deployer} \cup Players
ConstructorMinBet == 20
ConstructorMaxBet == 40
InitialHouseFunds == 37
BetValues == {0, 11, 21, 61}         \* msg.value offered to placeBet
Choices == {0, 1, 2}                 \* _choice offered to placeBet
UserRandomness == {0, 99}            \* _userRandomness offered to placeBet
RandomNumbers == {6, 7}              \* uint256(randomNumber)
DepositValues == {0, 40}
WithdrawAmounts == {1, 100}
MonadWithdrawAmounts == {30, 100}    \* amount offered to withdrawFees
BlockTimes == {ONE_HOUR, ONE_HOUR + 1}   \* seconds between two blocks
MinBetValues == {0, 21, 40}          \* _minBet offered to setMinBet
MaxBetValues == {20, 60}             \* _maxBet offered to setMaxBet
NewOwners == {"0x0", "alice"}        \* _newOwner offered to transferOwnership
MonadBetValues == {0, 1, 21, 10001}  \* msg.value offered to MonadFlip.placeBet
RevealRandomness == {0, 99}          \* _randomness offered to revealAndPlaceBet
RevealNonces == {5, 6}               \* _nonce offered to revealAndPlaceBet
RevealValues == {0, 21}              \* msg.value offered to revealAndPlaceBet
DeployTime == 1                      \* block.timestamp of the deployment
ClockTimes == {DeployTime + DefaultCommitmentDuration - 1,
               DeployTime + DefaultCommitmentDuration,
               DeployTime + DefaultRevealDeadline,
               DeployTime + DefaultRevealDeadline + 1}
CommitmentTimings == {<< 0, 3600 >>, << 3600, 3600 >>, << 1, 3600 >>}
FeePercentages == {0, 2000, 2001}     \* _feePercentage offered
ConcurrentLimits == {0, 1}           \* _maxConcurrentBets offered
StakeArguments == 0..MaxStakeWei     \* betAmount of a game, in wei
PayoutArguments == 1..MaxStakeWei    \* betAmount offered to calculatePayout, in wei

MaxIds == IF MaxGames > MaxBets THEN MaxGames
          ELSE IF MaxHistory > MaxBets THEN MaxHistory ELSE MaxBets
GameIds == 0..MaxIds
Seqs == 0..(MaxIds + FirstSequence)

----------------------------------------------------------------------------
(* Data *)

EmptyGame ==
    [ player |-> Zero, betAmount |-> 0, playerChoice |-> 0, result |-> 0,
      won |-> FALSE, payout |-> 0, timestamp |-> 0, state |-> "Pending",
      entropySequenceNumber |-> 0, userRandomness |-> 0 ]

(* struct Bet of MonadFlip *)
EmptyBet ==
    [ player |-> Zero, amount |-> 0, guess |-> 0, isSettled |-> FALSE,
      won |-> FALSE, payout |-> 0 ]

(* A digest keccak256(abi.encodePacked(_randomness, _nonce)) is the pair it
   was computed from: two digests are equal exactly when the pairs are.
   bytes32(0) is the empty tuple, which is the digest of no pair. *)
keccak256(_randomness, _nonce) == << _randomness, _nonce >>

ZeroBytes32 == << >>

(* struct Commitment of MonadFlipWithCommitReveal *)
NoCommitment ==
    [ commitment |-> ZeroBytes32, timestamp |-> 0, revealed |-> FALSE ]

(* _commitment offered to commitRandomness *)
CommitmentValues == {ZeroBytes32, keccak256(99, 5), keccak256(0, 5)}

(* currentGameId === null *)
NoGame == -1

(* The status line: its text and, when it reports a result, the game whose
   outcome it shows. *)
Message(text, game, won) == [ text |-> text, game |-> game, won |-> won ]

NoMessage == Message("", NoGame, FALSE)

(* The bet transaction of the component: idle, pending (writeContract
   called), confirmed (receipt received), error, polling (the fallback timer
   for the game id is running), done (its effect has run).  sent is the
   number of games the contract had when the transaction was sent, which
   tells its game from the others; gameId is the game it created. *)
Transaction(status, sent, gameId) ==
    [ status |-> status, sent |-> sent, gameId |-> gameId ]

NoTransaction == Transaction("idle", 0, NoGame)

(* An event about a wager, with the arguments the contracts give it:
   BetPlaced(player, amount, choice), GameResult / BetSettled(player,
   choice, result, won, payout).  The id is the index in lastEvent. *)
NoEvent ==
    [ name |-> "", player |-> Zero, amount |-> 0, choice |-> 0,
      result |-> 0, won |-> FALSE, payout |-> 0 ]

BetPlaced(player, amount, choice) ==
    [ name |-> "BetPlaced", player |-> player, amount |-> amount,
      choice |-> choice, result |-> 0, won |-> FALSE, payout |-> 0 ]

GameResult(player, choice, result, won, payout) ==
    [ name |-> "GameResult", player |-> player, amount |-> 0,
      choice |-> choice, result |-> result, won |-> won, payout |-> payout ]

BetSettled(player, result, won, payout) ==
    [ name |-> "BetSettled", player |-> player, amount |-> 0,
      choice |-> 0, result |-> result, won |-> won, payout |-> payout ]

(* The record of a transaction: the function called, whether it returned
   or reverted (and with which error), the game id and the oracle sequence
   number it was about, and the transfer it made out of the contract. *)
NoCall ==
    [ op |-> "none", ok |-> TRUE, err |-> "", id |-> 0, handle |-> 0,
      to |-> Zero, amt |-> 0 ]

Ok(op, id, handle, to, amt) ==
    [ op |-> op, ok |-> TRUE, err |-> "", id |-> id, handle |-> handle,
      to |-> to, amt |-> amt ]

Failed(op, err, id, handle) ==
    [ op |-> op, ok |-> FALSE, err |-> err, id |-> id, handle |-> handle,
      to |-> Zero, amt |-> 0 ]

ledger == << owner, minBet, maxBet, houseFees, gameIdCounter, games,
             playerGames, sequenceToGameId, balance >>

(* the ledger without the balance *)
storage == << owner, minBet, maxBet, houseFees, gameIdCounter, games,
              playerGames, sequenceToGameId >>

chain == << contract, now, blockNumber >>

oracle == << nextSeq, requests >>

(* storage that MonadFlipWithCommitReveal adds to MonadFlip *)
commit == << commitments, commitmentDuration, revealDeadline >>

(* state of the component CoinFlip.tsx of the web frontend *)
frontend == << isFlipping, currentGameId, statusMessage, transaction,
               delivered >>

(* what CoinFlip and CoinFlipV2 do not touch: the storage of MonadFlip and of
   its extension, and the frontend *)
monad == << feePercentage, minimumBet, maximumBet, paused, locked,
            maxConcurrentBets, activeBetsCount, bets, playerBets, commit,
            frontend >>

(* A call that has sent value to `to` and waits for that external call to
   return; result and won are the locals it will use afterwards. *)
Frame(op, id, handle, to, amt, result, won) ==
    [ op |-> op, id |-> id, handle |-> handle, to |-> to, amt |-> amt,
      result |-> result, won |-> won ]

(* The record of a call that is suspended in its transfer. *)
Sending(op, id, handle, to, amt) ==
    [ op |-> "send", ok |-> TRUE, err |-> "", id |-> id, handle |-> handle,
      to |-> to, amt |-> amt ]

(* A reverted transaction: nothing changes but the record of the call. *)
Revert(op, err, id, handle) ==
    /\ last' = Failed(op, err, id, handle)
    /\ UNCHANGED << ledger, chain, oracle, monad, stack, lastEvent >>

(* potentialPayout of placeBet *)
PotentialPayout(betAmount) == (betAmount * 190) \div 100

(* payout of a won game with the division done before the multiplication *)
Payout_DividesFirst(betAmount) == betAmount + ((betAmount \div 100) * 90)

(* payout of a won game *)
Payout(betAmount) == betAmount + ((betAmount * 90) \div 100)

(* fee charged on every resolution *)
Fee(betAmount) == (betAmount * HOUSE_FEE_PERCENT) \div 100

(* the result with the two sides swapped: even gives Tails *)
Result_Swapped(randomNumber) == (randomNumber + 1) % 2

(* uint8(uint256(randomNumber) % 2) *)
Result(randomNumber) == randomNumber % 2

(* Sum of f(games[i]) over the ids below n whose game is Pending *)
RECURSIVE SumPending(_, _, _)
SumPending(g, n, field) ==
    IF n = 0 THEN 0
    ELSE SumPending(g, n - 1, field)
         + (IF g[n - 1].state = "Pending" /\ g[n - 1].player # Zero
            THEN (IF field = "payout" THEN PotentialPayout(g[n - 1].betAmount)
                                      ELSE g[n - 1].betAmount)
            ELSE 0)

PendingPayouts == SumPending(games, gameIdCounter, "payout")
PendingStakes == SumPending(games, gameIdCounter, "stake")

----------------------------------------------------------------------------
(* Deployment *)

InitStorage ==
    /\ owner = Deployer
    /\ minBet = ConstructorMinBet
    /\ maxBet = ConstructorMaxBet
    /\ houseFees = 0
    /\ gameIdCounter = 0
    /\ games = [ i \in GameIds |-> EmptyGame ]
    /\ playerGames = [ a \in Addresses |-> << >> ]
    /\ sequenceToGameId = [ s \in Seqs |-> 0 ]
    /\ balance = InitialHouseFunds
    /\ blockNumber = 0
    /\ nextSeq = FirstSequence
    /\ requests = {}
    /\ last = NoCall
    /\ lastEvent = [ i \in Seqs |-> NoEvent ]
    /\ stack = << >>
    /\ feePercentage = DefaultFeePercentage
    /\ minimumBet = DefaultMinimumBet
    /\ maximumBet = DefaultMaximumBet
    /\ paused = FALSE
    /\ locked = FALSE
    /\ maxConcurrentBets = DefaultMaxConcurrentBets
    /\ activeBetsCount = 0
    /\ bets = [ s \in Seqs |-> EmptyBet ]
    /\ playerBets = [ a \in Addresses |-> << >> ]
    /\ commitments = [ a \in Addresses |-> NoCommitment ]
    /\ commitmentDuration = DefaultCommitmentDuration
    /\ revealDeadline = DefaultRevealDeadline
    /\ isFlipping = FALSE
    /\ currentGameId = NoGame
    /\ statusMessage = NoMessage
    /\ transaction = NoTransaction
    /\ delivered = {}

(* The contract as deployed, with the clock at 0 *)
InitLedger ==
    /\ InitStorage
    /\ now = 0

----------------------------------------------------------------------------
(* CoinFlipV2 *)

(* placeBet that takes the game id before it checks the bet amount and does
   not give it back when the bet is too low *)
CoinFlipV2_placeBet_TakesId(sender, _choice, value) ==
    /\ IF _choice # 0 /\ _choice # 1
       THEN Revert("placeBet", "InvalidChoice", gameIdCounter, 0)
       ELSE IF value < EntropyFee
       THEN Revert("placeBet", "Panic", gameIdCounter, 0)
       ELSE LET betAmount == value - EntropyFee
                potentialPayout == PotentialPayout(betAmount)
                sequenceNumber == nextSeq
                gameId == gameIdCounter
            IN
            IF betAmount < minBet
            THEN
              /\ gameIdCounter' = gameIdCounter + 1
              /\ last' = Failed("placeBet", "BetTooLow", gameIdCounter, 0)
              /\ UNCHANGED << owner, minBet, maxBet, houseFees, games,
                              playerGames, sequenceToGameId, balance,
                              chain, oracle, monad, stack, lastEvent >>
            ELSE IF betAmount > maxBet
            THEN Revert("placeBet", "BetTooHigh", gameIdCounter, 0)
            ELSE IF balance + value < betAmount + potentialPayout
            THEN Revert("placeBet", "InsufficientHouseBalance", gameIdCounter, 0)
            ELSE
              /\ balance' = balance + value - EntropyFee
              /\ nextSeq' = nextSeq + 1
              /\ requests' = requests \cup {sequenceNumber}
              /\ gameIdCounter' = gameIdCounter + 1
              /\ games' = [ games EXCEPT ![gameId] =
                    [ player |-> sender, betAmount |-> betAmount,
                      playerChoice |-> _choice, result |-> 0, won |-> FALSE,
                      payout |-> 0, timestamp |-> now, state |-> "Pending",
                      entropySequenceNumber |-> 0, userRandomness |-> 0 ] ]
              /\ playerGames' = [ playerGames EXCEPT
                                    ![sender] = Append(@, gameId) ]
              /\ sequenceToGameId' = [ sequenceToGameId EXCEPT
                                         ![sequenceNumber] = gameId ]
              /\ lastEvent' = [ lastEvent EXCEPT ![gameId] =
                                  BetPlaced(sender, betAmount, _choice) ]
              /\ last' = Ok("placeBet", gameId, sequenceNumber, Zero, 0)
              /\ UNCHANGED << owner, minBet, maxBet, houseFees,
                              chain, monad, stack >>

CoinFlipV2_placeBet(sender, _choice, value) ==
    /\ IF _choice # 0 /\ _choice # 1
       THEN Revert("placeBet", "InvalidChoice", gameIdCounter, 0)
       ELSE IF value < EntropyFee
       THEN Revert("placeBet", "Panic", gameIdCounter, 0)
       ELSE LET betAmount == value - EntropyFee
                potentialPayout == PotentialPayout(betAmount)
                sequenceNumber == nextSeq
                gameId == gameIdCounter
            IN
            IF betAmount < minBet
            THEN Revert("placeBet", "BetTooLow", gameIdCounter, 0)
            ELSE IF betAmount > maxBet
            THEN Revert("placeBet", "BetTooHigh", gameIdCounter, 0)
            ELSE IF balance + value < betAmount + potentialPayout
            THEN Revert("placeBet", "InsufficientHouseBalance", gameIdCounter, 0)
            ELSE
              /\ balance' = balance + value - EntropyFee
              /\ nextSeq' = nextSeq + 1
              /\ requests' = requests \cup {sequenceNumber}
              /\ gameIdCounter' = gameIdCounter + 1
              /\ games' = [ games EXCEPT ![gameId] =
                    [ player |-> sender, betAmount |-> betAmount,
                      playerChoice |-> _choice, result |-> 0, won |-> FALSE,
                      payout |-> 0, timestamp |-> now, state |-> "Pending",
                      entropySequenceNumber |-> 0, userRandomness |-> 0 ] ]
              /\ playerGames' = [ playerGames EXCEPT
                                    ![sender] = Append(@, gameId) ]
              /\ sequenceToGameId' = [ sequenceToGameId EXCEPT
                                         ![sequenceNumber] = gameId ]
              /\ lastEvent' = [ lastEvent EXCEPT ![gameId] =
                                  BetPlaced(sender, betAmount, _choice) ]
              /\ last' = Ok("placeBet", gameId, sequenceNumber, Zero, 0)
              /\ UNCHANGED << owner, minBet, maxBet, houseFees,
                              chain, monad, stack >>

(* entropyCallback that charges the house fee on a lost game only *)
CoinFlipV2_entropyCallback_FeeOnLoss(sequenceNumber, randomNumber) ==
    LET gameId == sequenceToGameId[sequenceNumber]
        game == games[gameId]
        result == Result(randomNumber)
        won == (game.playerChoice = result)
        payout == Payout(game.betAmount)
        fee == Fee(game.betAmount)
    IN
    IF won /\ balance < payout
    THEN Revert("entropyCallback", "PayoutFailed", gameId, sequenceNumber)
    ELSE
      /\ games' = [ games EXCEPT ![gameId] =
            [ game EXCEPT !.result = result, !.state = "Revealed",
                          !.won = won,
                          !.payout = IF won THEN payout ELSE game.payout ] ]
      /\ houseFees' = IF won THEN houseFees ELSE houseFees + fee
      /\ balance' = IF won THEN balance - payout ELSE balance
      /\ requests' = requests \ {sequenceNumber}
      /\ lastEvent' = [ lastEvent EXCEPT ![gameId] =
                          GameResult(game.player, game.playerChoice, result,
                                     won, games'[gameId].payout) ]
      /\ last' = Ok("entropyCallback", gameId, sequenceNumber,
                    IF won THEN game.player ELSE Zero,
                    IF won THEN payout ELSE 0)
      /\ UNCHANGED << owner, minBet, maxBet, gameIdCounter, playerGames,
                      sequenceToGameId, chain, nextSeq, monad, stack >>

(* entropyCallback, reached through IEntropyConsumer._entropyCallback, which
   only the oracle can call.  The oracle drops the request once the callback
   has returned normally. *)
CoinFlipV2_entropyCallback(sequenceNumber, randomNumber) ==
    LET gameId == sequenceToGameId[sequenceNumber]
        game == games[gameId]
        result == Result(randomNumber)
        won == (game.playerChoice = result)
        payout == Payout(game.betAmount)
        fee == Fee(game.betAmount)
    IN
    IF won /\ balance < payout
    THEN Revert("entropyCallback", "PayoutFailed", gameId, sequenceNumber)
    ELSE
      /\ games' = [ games EXCEPT ![gameId] =
            [ game EXCEPT !.result = result, !.state = "Revealed",
                          !.won = won,
                          !.payout = IF won THEN payout ELSE game.payout ] ]
      /\ houseFees' = houseFees + fee
      /\ balance' = IF won THEN balance - payout ELSE balance
      /\ requests' = requests \ {sequenceNumber}
      /\ lastEvent' = [ lastEvent EXCEPT ![gameId] =
                          GameResult(game.player, game.playerChoice, result,
                                     won, games'[gameId].payout) ]
      /\ last' = Ok("entropyCallback", gameId, sequenceNumber,
                    IF won THEN game.player ELSE Zero,
                    IF won THEN payout ELSE 0)
      /\ UNCHANGED << owner, minBet, maxBet, gameIdCounter, playerGames,
                      sequenceToGameId, chain, nextSeq, monad, stack >>

(* cancelGame with the timeout compared by < instead of <=: a wager could be
   cancelled exactly one hour after it was placed. *)
CoinFlipV2_cancelGame_EarlyByOne(sender, _gameId) ==
    LET game == games[_gameId] IN
    IF game.state # "Pending"
    THEN Revert("cancelGame", "GameNotPending", _gameId, 0)
    ELSE IF sender # game.player
    THEN Revert("cancelGame", "NotPlayer", _gameId, 0)
    ELSE IF now < game.timestamp + ONE_HOUR
    THEN Revert("cancelGame", "CannotCancelYet", _gameId, 0)
    ELSE IF balance < game.betAmount
    THEN Revert("cancelGame", "RefundFailed", _gameId, 0)
    ELSE
      /\ games' = [ games EXCEPT ![_gameId].state = "Cancelled" ]
      /\ balance' = balance - game.betAmount
      /\ last' = Ok("cancelGame", _gameId, 0, game.player, game.betAmount)
      /\ UNCHANGED << owner, minBet, maxBet, houseFees, gameIdCounter,
                      playerGames, sequenceToGameId,
                      chain, oracle, monad, stack, lastEvent >>

CoinFlipV2_cancelGame(sender, _gameId) ==
    LET game == games[_gameId] IN
    IF game.state # "Pending"
    THEN Revert("cancelGame", "GameNotPending", _gameId, 0)
    ELSE IF sender # game.player
    THEN Revert("cancelGame", "NotPlayer", _gameId, 0)
    ELSE IF now <= game.timestamp + ONE_HOUR
    THEN Revert("cancelGame", "CannotCancelYet", _gameId, 0)
    ELSE IF balance < game.betAmount
    THEN Revert("cancelGame", "RefundFailed", _gameId, 0)
    ELSE
      /\ games' = [ games EXCEPT ![_gameId].state = "Cancelled" ]
      /\ balance' = balance - game.betAmount
      /\ last' = Ok("cancelGame", _gameId, 0, game.player, game.betAmount)
      /\ UNCHANGED << owner, minBet, maxBet, houseFees, gameIdCounter,
                      playerGames, sequenceToGameId,
                      chain, oracle, monad, stack, lastEvent >>

CoinFlipV2_depositHouseFunds(sender, value) ==
    /\ IF ~(value > 0)
       THEN Revert("depositHouseFunds", "Must deposit some amount", 0, 0)
       ELSE
         /\ balance' = balance + value
         /\ last' = Ok("depositHouseFunds", 0, 0, Zero, 0)
         /\ UNCHANGED << owner, minBet, maxBet, houseFees, gameIdCounter,
                         games, playerGames, sequenceToGameId,
                         chain, oracle, monad, stack, lastEvent >>

CoinFlipV2_withdrawHouseFees(sender, _amount) ==
    IF sender # owner
    THEN Revert("withdrawHouseFees", "OnlyOwner", 0, 0)
    ELSE IF ~(_amount <= houseFees)
    THEN Revert("withdrawHouseFees", "Insufficient house fees", 0, 0)
    ELSE IF ~(_amount <= balance)
    THEN Revert("withdrawHouseFees", "Insufficient contract balance", 0, 0)
    ELSE
      /\ houseFees' = houseFees - _amount
      /\ balance' = balance - _amount
      /\ last' = Ok("withdrawHouseFees", 0, 0, owner, _amount)
      /\ UNCHANGED << owner, minBet, maxBet, gameIdCounter, games,
                      playerGames, sequenceToGameId,
                      chain, oracle, monad, stack, lastEvent >>

CoinFlipV2_emergencyWithdraw(sender) ==
    IF sender # owner
    THEN Revert("emergencyWithdraw", "OnlyOwner", 0, 0)
    ELSE IF ~(balance > 0)
    THEN Revert("emergencyWithdraw", "No balance to withdraw", 0, 0)
    ELSE
      /\ balance' = 0
      /\ last' = Ok("emergencyWithdraw", 0, 0, owner, balance)
      /\ UNCHANGED << owner, minBet, maxBet, houseFees, gameIdCounter, games,
                      playerGames, sequenceToGameId,
                      chain, oracle, monad, stack, lastEvent >>

(* setMinBet that lets the deployer in instead of the current owner *)
CoinFlipV2_setMinBet_ByDeployer(sender, _minBet) ==
    IF sender # Deployer
    THEN Revert("setMinBet", "OnlyOwner", 0, 0)
    ELSE IF ~(_minBet > 0)
    THEN Revert("setMinBet", "Minimum bet must be greater than 0", 0, 0)
    ELSE IF ~(_minBet < maxBet)
    THEN Revert("setMinBet", "Minimum bet must be less than maximum bet", 0, 0)
    ELSE
      /\ minBet' = _minBet
      /\ last' = Ok("setMinBet", 0, 0, Zero, 0)
      /\ UNCHANGED << owner, maxBet, houseFees, gameIdCounter, games,
                      playerGames, sequenceToGameId, balance,
                      chain, oracle, monad, stack, lastEvent >>

CoinFlipV2_setMinBet(sender, _minBet) ==
    IF sender # owner
    THEN Revert("setMinBet", "OnlyOwner", 0, 0)
    ELSE IF ~(_minBet > 0)
    THEN Revert("setMinBet", "Minimum bet must be greater than 0", 0, 0)
    ELSE IF ~(_minBet < maxBet)
    THEN Revert("setMinBet", "Minimum bet must be less than maximum bet", 0, 0)
    ELSE
      /\ minBet' = _minBet
      /\ last' = Ok("setMinBet", 0, 0, Zero, 0)
      /\ UNCHANGED << owner, maxBet, houseFees, gameIdCounter, games,
                      playerGames, sequenceToGameId, balance,
                      chain, oracle, monad, stack, lastEvent >>

CoinFlipV2_setMaxBet(sender, _maxBet) ==
    IF sender # owner
    THEN Revert("setMaxBet", "OnlyOwner", 0, 0)
    ELSE IF ~(_maxBet > minBet)
    THEN Revert("setMaxBet", "Maximum bet must be greater than minimum bet",
                0, 0)
    ELSE
      /\ maxBet' = _maxBet
      /\ last' = Ok("setMaxBet", 0, 0, Zero, 0)
      /\ UNCHANGED << owner, minBet, houseFees, gameIdCounter, games,
                      playerGames, sequenceToGameId, balance,
                      chain, oracle, monad, stack, lastEvent >>

CoinFlipV2_transferOwnership(sender, _newOwner) ==
    IF sender # owner
    THEN Revert("transferOwnership", "OnlyOwner", 0, 0)
    ELSE IF ~(_newOwner # Zero)
    THEN Revert("transferOwnership", "New owner cannot be zero address", 0, 0)
    ELSE
      /\ owner' = _newOwner
      /\ last' = Ok("transferOwnership", 0, 0, Zero, 0)
      /\ UNCHANGED << minBet, maxBet, houseFees, gameIdCounter, games,
                      playerGames, sequenceToGameId, balance,
                      chain, oracle, monad, stack, lastEvent >>

(* entropyCallback up to its payout transfer.  A lost game makes no transfer
   and runs to the end; a won game has written its record and the fee and
   has sent the payout, and waits for the recipient to return. *)
CoinFlipV2_entropyCallback_send(sequenceNumber, randomNumber) ==
    LET gameId == sequenceToGameId[sequenceNumber]
        game == games[gameId]
        result == Result(randomNumber)
        won == (game.playerChoice = result)
        payout == Payout(game.betAmount)
        fee == Fee(game.betAmount)
    IN
    IF ~won
    THEN CoinFlipV2_entropyCallback(sequenceNumber, randomNumber)
    ELSE IF balance < payout
    THEN Revert("entropyCallback", "PayoutFailed", gameId, sequenceNumber)
    ELSE
      /\ games' = [ games EXCEPT ![gameId] =
            [ game EXCEPT !.result = result, !.state = "Revealed",
                          !.won = won, !.payout = payout ] ]
      /\ houseFees' = houseFees + fee
      /\ balance' = balance - payout
      /\ stack' = << Frame("entropyCallback", gameId, sequenceNumber,
                           game.player, payout, result, won) >> \o stack
      /\ last' = Sending("entropyCallback", gameId, sequenceNumber,
                         game.player, payout)
      /\ UNCHANGED << owner, minBet, maxBet, gameIdCounter, playerGames,
                      sequenceToGameId, chain, oracle, monad, lastEvent >>

(* entropyCallback after its payout transfer has returned: the event. *)
CoinFlipV2_entropyCallback_return ==
    LET f == Head(stack) IN
    /\ lastEvent' = [ lastEvent EXCEPT ![f.id] =
                        GameResult(games[f.id].player,
                                   games[f.id].playerChoice, f.result,
                                   f.won, games[f.id].payout) ]
    /\ requests' = requests \ {f.handle}
    /\ stack' = Tail(stack)
    /\ last' = Ok("entropyCallback", f.id, f.handle, f.to, f.amt)
    /\ UNCHANGED << ledger, chain, nextSeq, monad >>

(* cancelGame up to its refund transfer *)
CoinFlipV2_cancelGame_send(sender, _gameId) ==
    LET game == games[_gameId] IN
    IF game.state # "Pending"
    THEN Revert("cancelGame", "GameNotPending", _gameId, 0)
    ELSE IF sender # game.player
    THEN Revert("cancelGame", "NotPlayer", _gameId, 0)
    ELSE IF now <= game.timestamp + ONE_HOUR
    THEN Revert("cancelGame", "CannotCancelYet", _gameId, 0)
    ELSE IF balance < game.betAmount
    THEN Revert("cancelGame", "RefundFailed", _gameId, 0)
    ELSE
      /\ games' = [ games EXCEPT ![_gameId].state = "Cancelled" ]
      /\ balance' = balance - game.betAmount
      /\ stack' = << Frame("cancelGame", _gameId, 0, game.player,
                           game.betAmount, 0, FALSE) >> \o stack
      /\ last' = Sending("cancelGame", _gameId, 0, game.player,
                         game.betAmount)
      /\ UNCHANGED << owner, minBet, maxBet, houseFees, gameIdCounter,
                      playerGames, sequenceToGameId,
                      chain, oracle, monad, lastEvent >>

(* cancelGame after its refund transfer has returned *)
CoinFlipV2_cancelGame_return ==
    LET f == Head(stack) IN
    /\ stack' = Tail(stack)
    /\ last' = Ok("cancelGame", f.id, f.handle, f.to, f.amt)
    /\ UNCHANGED << ledger, chain, oracle, monad, lastEvent >>

----------------------------------------------------------------------------
(* CoinFlip *)

(* placeBet that hands out its id without advancing gameIdCounter *)
CoinFlip_placeBet_ReusesId(sender, _choice, _userRandomness, value) ==
    /\ IF ~(value >= minBet)
       THEN Revert("placeBet", "Bet amount is below minimum", gameIdCounter, 0)
       ELSE IF ~(value <= maxBet)
       THEN Revert("placeBet", "Bet amount is above maximum", gameIdCounter, 0)
       ELSE IF ~(_choice = 0 \/ _choice = 1)
       THEN Revert("placeBet", "Invalid choice", gameIdCounter, 0)
       ELSE IF ~(_userRandomness # 0)
       THEN Revert("placeBet", "User randomness cannot be zero", gameIdCounter, 0)
       ELSE IF ~(value > EntropyFee)
       THEN Revert("placeBet", "Bet amount must cover entropy fee", gameIdCounter, 0)
       ELSE LET actualBet == value - EntropyFee
                potentialPayout == PotentialPayout(actualBet)
                sequenceNumber == nextSeq
                gameId == gameIdCounter
            IN
            IF ~(balance + value >= actualBet + potentialPayout)
            THEN Revert("placeBet", "Insufficient house balance for potential payout",
                        gameIdCounter, 0)
            ELSE
              /\ balance' = balance + value - EntropyFee
              /\ nextSeq' = nextSeq + 1
              /\ requests' = requests \cup {sequenceNumber}
              /\ gameIdCounter' = gameIdCounter
              /\ games' = [ games EXCEPT ![gameId] =
                    [ player |-> sender, betAmount |-> actualBet,
                      playerChoice |-> _choice, result |-> 0, won |-> FALSE,
                      payout |-> 0, timestamp |-> now, state |-> "Pending",
                      entropySequenceNumber |-> sequenceNumber,
                      userRandomness |-> _userRandomness ] ]
              /\ playerGames' = [ playerGames EXCEPT
                                    ![sender] = Append(@, gameId) ]
              /\ sequenceToGameId' = [ sequenceToGameId EXCEPT
                                         ![sequenceNumber] = gameId ]
              /\ lastEvent' = [ lastEvent EXCEPT ![gameId] =
                                  BetPlaced(sender, actualBet, _choice) ]
              /\ last' = Ok("placeBet", gameId, sequenceNumber, Zero, 0)
              /\ UNCHANGED << owner, minBet, maxBet, houseFees,
                              chain, monad, stack >>

CoinFlip_placeBet(sender, _choice, _userRandomness, value) ==
    /\ IF ~(value >= minBet)
       THEN Revert("placeBet", "Bet amount is below minimum", gameIdCounter, 0)
       ELSE IF ~(value <= maxBet)
       THEN Revert("placeBet", "Bet amount is above maximum", gameIdCounter, 0)
       ELSE IF ~(_choice = 0 \/ _choice = 1)
       THEN Revert("placeBet", "Invalid choice", gameIdCounter, 0)
       ELSE IF ~(_userRandomness # 0)
       THEN Revert("placeBet", "User randomness cannot be zero", gameIdCounter, 0)
       ELSE IF ~(value > EntropyFee)
       THEN Revert("placeBet", "Bet amount must cover entropy fee", gameIdCounter, 0)
       ELSE LET actualBet == value - EntropyFee
                potentialPayout == PotentialPayout(actualBet)
                sequenceNumber == nextSeq
                gameId == gameIdCounter
            IN
            IF ~(balance + value >= actualBet + potentialPayout)
            THEN Revert("placeBet", "Insufficient house balance for potential payout",
                        gameIdCounter, 0)
            ELSE
              /\ balance' = balance + value - EntropyFee
              /\ nextSeq' = nextSeq + 1
              /\ requests' = requests \cup {sequenceNumber}
              /\ gameIdCounter' = gameIdCounter + 1
              /\ games' = [ games EXCEPT ![gameId] =
                    [ player |-> sender, betAmount |-> actualBet,
                      playerChoice |-> _choice, result |-> 0, won |-> FALSE,
                      payout |-> 0, timestamp |-> now, state |-> "Pending",
                      entropySequenceNumber |-> sequenceNumber,
                      userRandomness |-> _userRandomness ] ]
              /\ playerGames' = [ playerGames EXCEPT
                                    ![sender] = Append(@, gameId) ]
              /\ sequenceToGameId' = [ sequenceToGameId EXCEPT
                                         ![sequenceNumber] = gameId ]
              /\ lastEvent' = [ lastEvent EXCEPT ![gameId] =
                                  BetPlaced(sender, actualBet, _choice) ]
              /\ last' = Ok("placeBet", gameId, sequenceNumber, Zero, 0)
              /\ UNCHANGED << owner, minBet, maxBet, houseFees,
                              chain, monad, stack >>

(* revealResult that takes only the stake of a won game out of the balance *)
CoinFlip_revealResult_PaysStake(_gameId, randomNumber) ==
    LET game == games[_gameId]
        result == Result(randomNumber)
        won == (game.playerChoice = result)
        payout == Payout(game.betAmount)
        fee == Fee(game.betAmount)
    IN
    IF ~(game.state = "Pending")
    THEN Revert("revealResult", "Game already revealed or cancelled", _gameId, 0)
    ELSE IF ~(game.player # Zero)
    THEN Revert("revealResult", "Game does not exist", _gameId, 0)
    ELSE IF game.entropySequenceNumber \notin requests
    THEN Revert("revealResult", "Entropy reveal failed", _gameId, 0)
    ELSE IF won /\ balance < payout
    THEN Revert("revealResult", "Payout transfer failed", _gameId, 0)
    ELSE
      /\ games' = [ games EXCEPT ![_gameId] =
            [ game EXCEPT !.result = result, !.state = "Revealed",
                          !.won = won,
                          !.payout = IF won THEN payout ELSE game.payout ] ]
      /\ houseFees' = houseFees + fee
      /\ balance' = IF won THEN balance - game.betAmount ELSE balance
      /\ requests' = requests \ {game.entropySequenceNumber}
      /\ lastEvent' = [ lastEvent EXCEPT ![_gameId] =
                          GameResult(game.player, game.playerChoice, result,
                                     won, games'[_gameId].payout) ]
      /\ last' = Ok("revealResult", _gameId, game.entropySequenceNumber,
                    IF won THEN game.player ELSE Zero,
                    IF won THEN payout ELSE 0)
      /\ UNCHANGED << owner, minBet, maxBet, gameIdCounter, playerGames,
                      sequenceToGameId, chain, nextSeq, monad, stack >>

(* revealResult; randomNumber is what entropy.reveal returns, and the oracle
   reverts when the sequence number has no outstanding request. *)
CoinFlip_revealResult(_gameId, randomNumber) ==
    LET game == games[_gameId]
        result == Result(randomNumber)
        won == (game.playerChoice = result)
        payout == Payout(game.betAmount)
        fee == Fee(game.betAmount)
    IN
    IF ~(game.state = "Pending")
    THEN Revert("revealResult", "Game already revealed or cancelled", _gameId, 0)
    ELSE IF ~(game.player # Zero)
    THEN Revert("revealResult", "Game does not exist", _gameId, 0)
    ELSE IF game.entropySequenceNumber \notin requests
    THEN Revert("revealResult", "Entropy reveal failed", _gameId, 0)
    ELSE IF won /\ balance < payout
    THEN Revert("revealResult", "Payout transfer failed", _gameId, 0)
    ELSE
      /\ games' = [ games EXCEPT ![_gameId] =
            [ game EXCEPT !.result = result, !.state = "Revealed",
                          !.won = won,
                          !.payout = IF won THEN payout ELSE game.payout ] ]
      /\ houseFees' = houseFees + fee
      /\ balance' = IF won THEN balance - payout ELSE balance
      /\ requests' = requests \ {game.entropySequenceNumber}
      /\ lastEvent' = [ lastEvent EXCEPT ![_gameId] =
                          GameResult(game.player, game.playerChoice, result,
                                     won, games'[_gameId].payout) ]
      /\ last' = Ok("revealResult", _gameId, game.entropySequenceNumber,
                    IF won THEN game.player ELSE Zero,
                    IF won THEN payout ELSE 0)
      /\ UNCHANGED << owner, minBet, maxBet, gameIdCounter, playerGames,
                      sequenceToGameId, chain, nextSeq, monad, stack >>

(* cancelGame that keeps the game Cancelled when its refund transfer fails *)
CoinFlip_cancelGame_NoRollback(sender, _gameId) ==
    LET game == games[_gameId] IN
    IF ~(game.state = "Pending")
    THEN Revert("cancelGame", "Game already revealed or cancelled", _gameId, 0)
    ELSE IF ~(game.player # Zero)
    THEN Revert("cancelGame", "Game does not exist", _gameId, 0)
    ELSE IF ~(sender = game.player)
    THEN Revert("cancelGame", "Only player can cancel their game", _gameId, 0)
    ELSE IF ~(now > game.timestamp + ONE_HOUR)
    THEN Revert("cancelGame", "Cannot cancel game yet, wait 1 hour", _gameId, 0)
    ELSE IF balance < game.betAmount
    THEN
      /\ games' = [ games EXCEPT ![_gameId].state = "Cancelled" ]
      /\ last' = Failed("cancelGame", "Refund transfer failed", _gameId, 0)
      /\ UNCHANGED << owner, minBet, maxBet, houseFees, gameIdCounter,
                      playerGames, sequenceToGameId, balance,
                      chain, oracle, monad, stack, lastEvent >>
    ELSE
      /\ games' = [ games EXCEPT ![_gameId].state = "Cancelled" ]
      /\ balance' = balance - game.betAmount
      /\ last' = Ok("cancelGame", _gameId, 0, game.player, game.betAmount)
      /\ UNCHANGED << owner, minBet, maxBet, houseFees, gameIdCounter,
                      playerGames, sequenceToGameId,
                      chain, oracle, monad, stack, lastEvent >>

CoinFlip_cancelGame(sender, _gameId) ==
    LET game == games[_gameId] IN
    IF ~(game.state = "Pending")
    THEN Revert("cancelGame", "Game already revealed or cancelled", _gameId, 0)
    ELSE IF ~(game.player # Zero)
    THEN Revert("cancelGame", "Game does not exist", _gameId, 0)
    ELSE IF ~(sender = game.player)
    THEN Revert("cancelGame", "Only player can cancel their game", _gameId, 0)
    ELSE IF ~(now > game.timestamp + ONE_HOUR)
    THEN Revert("cancelGame", "Cannot cancel game yet, wait 1 hour", _gameId, 0)
    ELSE IF balance < game.betAmount
    THEN Revert("cancelGame", "Refund transfer failed", _gameId, 0)
    ELSE
      /\ games' = [ games EXCEPT ![_gameId].state = "Cancelled" ]
      /\ balance' = balance - game.betAmount
      /\ last' = Ok("cancelGame", _gameId, 0, game.player, game.betAmount)
      /\ UNCHANGED << owner, minBet, maxBet, houseFees, gameIdCounter,
                      playerGames, sequenceToGameId,
                      chain, oracle, monad, stack, lastEvent >>

CoinFlip_depositHouseFunds(sender, value) ==
    /\ IF ~(value > 0)
       THEN Revert("depositHouseFunds", "Must deposit some amount", 0, 0)
       ELSE
         /\ balance' = balance + value
         /\ last' = Ok("depositHouseFunds", 0, 0, Zero, 0)
         /\ UNCHANGED << owner, minBet, maxBet, houseFees, gameIdCounter,
                         games, playerGames, sequenceToGameId,
                         chain, oracle, monad, stack, lastEvent >>

(* withdrawHouseFees that pays out without reducing houseFees *)
CoinFlip_withdrawHouseFees_KeepsFees(sender, _amount) ==
    IF ~(sender = owner)
    THEN Revert("withdrawHouseFees", "Only owner can call this function", 0, 0)
    ELSE IF ~(_amount <= houseFees)
    THEN Revert("withdrawHouseFees", "Insufficient house fees", 0, 0)
    ELSE IF ~(_amount <= balance)
    THEN Revert("withdrawHouseFees", "Insufficient contract balance", 0, 0)
    ELSE
      /\ houseFees' = houseFees
      /\ balance' = balance - _amount
      /\ last' = Ok("withdrawHouseFees", 0, 0, owner, _amount)
      /\ UNCHANGED << owner, minBet, maxBet, gameIdCounter, games,
                      playerGames, sequenceToGameId,
                      chain, oracle, monad, stack, lastEvent >>

CoinFlip_withdrawHouseFees(sender, _amount) ==
    IF ~(sender = owner)
    THEN Revert("withdrawHouseFees", "Only owner can call this function", 0, 0)
    ELSE IF ~(_amount <= houseFees)
    THEN Revert("withdrawHouseFees", "Insufficient house fees", 0, 0)
    ELSE IF ~(_amount <= balance)
    THEN Revert("withdrawHouseFees", "Insufficient contract balance", 0, 0)
    ELSE
      /\ houseFees' = houseFees - _amount
      /\ balance' = balance - _amount
      /\ last' = Ok("withdrawHouseFees", 0, 0, owner, _amount)
      /\ UNCHANGED << owner, minBet, maxBet, gameIdCounter, games,
                      playerGames, sequenceToGameId,
                      chain, oracle, monad, stack, lastEvent >>

CoinFlip_emergencyWithdraw(sender) ==
    IF ~(sender = owner)
    THEN Revert("emergencyWithdraw", "Only owner can call this function", 0, 0)
    ELSE IF ~(balance > 0)
    THEN Revert("emergencyWithdraw", "No balance to withdraw", 0, 0)
    ELSE
      /\ balance' = 0
      /\ last' = Ok("emergencyWithdraw", 0, 0, owner, balance)
      /\ UNCHANGED << owner, minBet, maxBet, houseFees, gameIdCounter, games,
                      playerGames, sequenceToGameId,
                      chain, oracle, monad, stack, lastEvent >>

CoinFlip_setMinBet(sender, _minBet) ==
    IF ~(sender = owner)
    THEN Revert("setMinBet", "Only owner can call this function", 0, 0)
    ELSE IF ~(_minBet > 0)
    THEN Revert("setMinBet", "Minimum bet must be greater than 0", 0, 0)
    ELSE IF ~(_minBet < maxBet)
    THEN Revert("setMinBet", "Minimum bet must be less than maximum bet", 0, 0)
    ELSE
      /\ minBet' = _minBet
      /\ last' = Ok("setMinBet", 0, 0, Zero, 0)
      /\ UNCHANGED << owner, maxBet, houseFees, gameIdCounter, games,
                      playerGames, sequenceToGameId, balance,
                      chain, oracle, monad, stack, lastEvent >>

CoinFlip_setMaxBet(sender, _maxBet) ==
    IF ~(sender = owner)
    THEN Revert("setMaxBet", "Only owner can call this function", 0, 0)
    ELSE IF ~(_maxBet > minBet)
    THEN Revert("setMaxBet", "Maximum bet must be greater than minimum bet",
                0, 0)
    ELSE
      /\ maxBet' = _maxBet
      /\ last' = Ok("setMaxBet", 0, 0, Zero, 0)
      /\ UNCHANGED << owner, minBet, houseFees, gameIdCounter, games,
                      playerGames, sequenceToGameId, balance,
                      chain, oracle, monad, stack, lastEvent >>

CoinFlip_transferOwnership(sender, _newOwner) ==
    IF ~(sender = owner)
    THEN Revert("transferOwnership", "Only owner can call this function",
                0, 0)
    ELSE IF ~(_newOwner # Zero)
    THEN Revert("transferOwnership", "New owner cannot be zero address", 0, 0)
    ELSE
      /\ owner' = _newOwner
      /\ last' = Ok("transferOwnership", 0, 0, Zero, 0)
      /\ UNCHANGED << minBet, maxBet, houseFees, gameIdCounter, games,
                      playerGames, sequenceToGameId, balance,
                      chain, oracle, monad, stack, lastEvent >>

(* revealResult up to its payout transfer.  A lost game makes no transfer
   and runs to the end; a won game has written its record and the fee and
   has sent the payout, and waits for the recipient to return. *)
CoinFlip_revealResult_send(_gameId, randomNumber) ==
    LET game == games[_gameId]
        result == Result(randomNumber)
        won == (game.playerChoice = result)
        payout == Payout(game.betAmount)
        fee == Fee(game.betAmount)
    IN
    IF ~(game.state = "Pending") \/ ~(game.player # Zero)
          \/ game.entropySequenceNumber \notin requests \/ ~won
    THEN CoinFlip_revealResult(_gameId, randomNumber)
    ELSE IF balance < payout
    THEN Revert("revealResult", "Payout transfer failed", _gameId, 0)
    ELSE
      /\ games' = [ games EXCEPT ![_gameId] =
            [ game EXCEPT !.result = result, !.state = "Revealed",
                          !.won = won, !.payout = payout ] ]
      /\ houseFees' = houseFees + fee
      /\ balance' = balance - payout
      /\ requests' = requests \ {game.entropySequenceNumber}
      /\ stack' = << Frame("revealResult", _gameId,
                           game.entropySequenceNumber, game.player, payout,
                           result, won) >> \o stack
      /\ last' = Sending("revealResult", _gameId,
                         game.entropySequenceNumber, game.player, payout)
      /\ UNCHANGED << owner, minBet, maxBet, gameIdCounter, playerGames,
                      sequenceToGameId, chain, nextSeq, monad, lastEvent >>

(* revealResult after its payout transfer has returned: the event. *)
CoinFlip_revealResult_return ==
    LET f == Head(stack) IN
    /\ lastEvent' = [ lastEvent EXCEPT ![f.id] =
                        GameResult(games[f.id].player,
                                   games[f.id].playerChoice, f.result,
                                   f.won, games[f.id].payout) ]
    /\ stack' = Tail(stack)
    /\ last' = Ok("revealResult", f.id, f.handle, f.to, f.amt)
    /\ UNCHANGED << ledger, chain, oracle, monad >>

(* cancelGame up to its refund transfer *)
CoinFlip_cancelGame_send(sender, _gameId) ==
    LET game == games[_gameId] IN
    IF ~(game.state = "Pending")
    THEN Revert("cancelGame", "Game already revealed or cancelled", _gameId, 0)
    ELSE IF ~(game.player # Zero)
    THEN Revert("cancelGame", "Game does not exist", _gameId, 0)
    ELSE IF ~(sender = game.player)
    THEN Revert("cancelGame", "Only player can cancel their game", _gameId, 0)
    ELSE IF ~(now > game.timestamp + ONE_HOUR)
    THEN Revert("cancelGame", "Cannot cancel game yet, wait 1 hour", _gameId, 0)
    ELSE IF balance < game.betAmount
    THEN Revert("cancelGame", "Refund transfer failed", _gameId, 0)
    ELSE
      /\ games' = [ games EXCEPT ![_gameId].state = "Cancelled" ]
      /\ balance' = balance - game.betAmount
      /\ stack' = << Frame("cancelGame", _gameId, 0, game.player,
                           game.betAmount, 0, FALSE) >> \o stack
      /\ last' = Sending("cancelGame", _gameId, 0, game.player,
                         game.betAmount)
      /\ UNCHANGED << owner, minBet, maxBet, houseFees, gameIdCounter,
                      playerGames, sequenceToGameId,
                      chain, oracle, monad, lastEvent >>

(* cancelGame after its refund transfer has returned *)
CoinFlip_cancelGame_return ==
    LET f == Head(stack) IN
    /\ stack' = Tail(stack)
    /\ last' = Ok("cancelGame", f.id, f.handle, f.to, f.amt)
    /\ UNCHANGED << ledger, chain, oracle, monad, lastEvent >>

----------------------------------------------------------------------------
(* MonadFlip *)

(* calculatePayout *)
calculatePayout(betAmount) ==
    LET winnings == betAmount * 2
        fee == (winnings * feePercentage) \div 10000
    IN winnings - fee

(* CoinSide result = (randomValue % 2 == 0) ? HEADS : TAILS *)
CoinSide(randomValue) == IF randomValue % 2 = 0 THEN 0 ELSE 1

(* placeBet that puts the new sequence number at the front of the
   player's list *)
MonadFlip_placeBet_FrontOfList(sender, _guess, _userRandomness, value) ==
    /\ IF _guess \notin {0, 1}
       THEN Revert("placeBet", "Panic", 0, 0)
       ELSE IF ~(value >= minimumBet)
       THEN Revert("placeBet", "Bet amount too low", 0, 0)
       ELSE IF ~(value <= maximumBet)
       THEN Revert("placeBet", "Bet amount too high", 0, 0)
       ELSE IF paused
       THEN Revert("placeBet", "Contract is paused", 0, 0)
       ELSE IF locked
       THEN Revert("placeBet", "Reentrant call", 0, 0)
       ELSE IF ~(activeBetsCount < maxConcurrentBets)
       THEN Revert("placeBet", "Too many concurrent bets", 0, 0)
       ELSE IF ~(_userRandomness # 0)
       THEN Revert("placeBet", "Invalid user randomness", 0, 0)
       ELSE IF value < EntropyFee
       THEN Revert("placeBet", "Panic", 0, 0)
       ELSE LET entropyFee == EntropyFee
                betAmount == value - entropyFee
                potentialPayout == calculatePayout(betAmount)
                sequenceNumber == nextSeq
            IN
            IF ~(balance + value >= potentialPayout)
            THEN Revert("placeBet",
                        "Contract insufficient balance for potential payout",
                        0, 0)
            ELSE
              /\ balance' = balance + value - entropyFee
              /\ nextSeq' = nextSeq + 1
              /\ requests' = requests \cup {sequenceNumber}
              /\ bets' = [ bets EXCEPT ![sequenceNumber] =
                    [ player |-> sender, amount |-> betAmount,
                      guess |-> _guess, isSettled |-> FALSE, won |-> FALSE,
                      payout |-> 0 ] ]
              /\ playerBets' = [ playerBets EXCEPT
                                   ![sender] = << sequenceNumber >> \o @ ]
              /\ activeBetsCount' = activeBetsCount + 1
              /\ lastEvent' = [ lastEvent EXCEPT ![sequenceNumber] =
                                  BetPlaced(sender, value, _guess) ]
              /\ last' = Ok("placeBet", sequenceNumber, sequenceNumber,
                            Zero, 0)
              /\ UNCHANGED << storage, chain, stack, commit, frontend,
                              feePercentage, minimumBet, maximumBet, paused,
                              locked, maxConcurrentBets >>

(* placeBet with an oracle that delivers its callback in a later
   transaction.  _guess is an enum: the call data decoder rejects a value
   that is not a CoinSide before any modifier runs. *)
MonadFlip_placeBet(sender, _guess, _userRandomness, value) ==
    /\ IF _guess \notin {0, 1}
       THEN Revert("placeBet", "Panic", 0, 0)
       ELSE IF ~(value >= minimumBet)
       THEN Revert("placeBet", "Bet amount too low", 0, 0)
       ELSE IF ~(value <= maximumBet)
       THEN Revert("placeBet", "Bet amount too high", 0, 0)
       ELSE IF paused
       THEN Revert("placeBet", "Contract is paused", 0, 0)
       ELSE IF locked
       THEN Revert("placeBet", "Reentrant call", 0, 0)
       ELSE IF ~(activeBetsCount < maxConcurrentBets)
       THEN Revert("placeBet", "Too many concurrent bets", 0, 0)
       ELSE IF ~(_userRandomness # 0)
       THEN Revert("placeBet", "Invalid user randomness", 0, 0)
       ELSE IF value < EntropyFee
       THEN Revert("placeBet", "Panic", 0, 0)
       ELSE LET entropyFee == EntropyFee
                betAmount == value - entropyFee
                potentialPayout == calculatePayout(betAmount)
                sequenceNumber == nextSeq
            IN
            IF ~(balance + value >= potentialPayout)
            THEN Revert("placeBet",
                        "Contract insufficient balance for potential payout",
                        0, 0)
            ELSE
              /\ balance' = balance + value - entropyFee
              /\ nextSeq' = nextSeq + 1
              /\ requests' = requests \cup {sequenceNumber}
              /\ bets' = [ bets EXCEPT ![sequenceNumber] =
                    [ player |-> sender, amount |-> betAmount,
                      guess |-> _guess, isSettled |-> FALSE, won |-> FALSE,
                      payout |-> 0 ] ]
              /\ playerBets' = [ playerBets EXCEPT
                                   ![sender] = Append(@, sequenceNumber) ]
              /\ activeBetsCount' = activeBetsCount + 1
              /\ lastEvent' = [ lastEvent EXCEPT ![sequenceNumber] =
                                  BetPlaced(sender, value, _guess) ]
              /\ last' = Ok("placeBet", sequenceNumber, sequenceNumber,
                            Zero, 0)
              /\ UNCHANGED << storage, chain, stack, commit, frontend,
                              feePercentage, minimumBet, maximumBet, paused,
                              locked, maxConcurrentBets >>

(* placeBet with the oracle of the repository's test (MockEntropy), which
   delivers the callback inside requestWithCallback: entropyCallback runs
   while placeBet holds the reentrancy lock and before placeBet has stored
   the bet, and a revert of the callback reverts the request and placeBet. *)
MonadFlip_placeBet_sync(sender, _guess, _userRandomness, value, randomNumber) ==
    /\ IF _guess \notin {0, 1}
       THEN Revert("placeBet", "Panic", 0, 0)
       ELSE IF ~(value >= minimumBet)
       THEN Revert("placeBet", "Bet amount too low", 0, 0)
       ELSE IF ~(value <= maximumBet)
       THEN Revert("placeBet", "Bet amount too high", 0, 0)
       ELSE IF paused
       THEN Revert("placeBet", "Contract is paused", 0, 0)
       ELSE IF locked
       THEN Revert("placeBet", "Reentrant call", 0, 0)
       ELSE IF ~(activeBetsCount < maxConcurrentBets)
       THEN Revert("placeBet", "Too many concurrent bets", 0, 0)
       ELSE IF ~(_userRandomness # 0)
       THEN Revert("placeBet", "Invalid user randomness", 0, 0)
       ELSE IF value < EntropyFee
       THEN Revert("placeBet", "Panic", 0, 0)
       ELSE LET entropyFee == EntropyFee
                betAmount == value - entropyFee
                potentialPayout == calculatePayout(betAmount)
                sequenceNumber == nextSeq
                lockedInCallback == TRUE      \* set by placeBet's modifier
                bet == bets[sequenceNumber]   \* not stored yet
                result == CoinSide(randomNumber)
                won == (bet.guess = result)
                payout == IF won THEN calculatePayout(bet.amount) ELSE 0
            IN
            IF ~(balance + value >= potentialPayout)
            THEN Revert("placeBet",
                        "Contract insufficient balance for potential payout",
                        0, 0)
            ELSE IF lockedInCallback
            THEN Revert("placeBet", "Reentrant call", sequenceNumber,
                        sequenceNumber)
            ELSE IF ~(~bet.isSettled)
            THEN Revert("placeBet", "Bet already settled", sequenceNumber,
                        sequenceNumber)
            ELSE IF ~(bet.player # Zero)
            THEN Revert("placeBet", "Invalid bet", sequenceNumber,
                        sequenceNumber)
            ELSE IF balance + value - entropyFee < payout
            THEN Revert("placeBet", "Payout transfer failed", sequenceNumber,
                        sequenceNumber)
            ELSE
              /\ balance' = balance + value - entropyFee - payout
              /\ nextSeq' = nextSeq + 1
              /\ bets' = [ bets EXCEPT ![sequenceNumber] =
                    [ player |-> sender, amount |-> betAmount,
                      guess |-> _guess, isSettled |-> FALSE, won |-> FALSE,
                      payout |-> 0 ] ]
              /\ playerBets' = [ playerBets EXCEPT
                                   ![sender] = Append(@, sequenceNumber) ]
              /\ activeBetsCount' = (activeBetsCount - 1) + 1
              /\ lastEvent' = [ lastEvent EXCEPT ![sequenceNumber] =
                                  BetPlaced(sender, value, _guess) ]
              /\ last' = Ok("placeBet", sequenceNumber, sequenceNumber,
                            bet.player, payout)
              /\ UNCHANGED << storage, chain, stack, requests, commit, frontend,
                              feePercentage, minimumBet, maximumBet, paused,
                              locked, maxConcurrentBets >>

(* The part of entropyCallback below "Update bet", and the release of the
   reentrancy lock. *)
MonadFlip_settle(sequenceNumber, result, won, payout) ==
    /\ bets' = [ bets EXCEPT ![sequenceNumber] =
                   [ @ EXCEPT !.isSettled = TRUE, !.won = won,
                              !.payout = payout ] ]
    /\ activeBetsCount' = activeBetsCount - 1
    /\ lastEvent' = [ lastEvent EXCEPT ![sequenceNumber] =
                        BetSettled(bets[sequenceNumber].player, result, won,
                                   payout) ]
    /\ locked' = FALSE
    /\ requests' = requests \ {sequenceNumber}
    /\ UNCHANGED << storage, chain, nextSeq, commit, frontend, feePercentage,
                    minimumBet, maximumBet, paused, maxConcurrentBets,
                    playerBets >>

(* entropyCallback up to its payout transfer.  A lost bet makes no transfer
   and runs to the end; a won bet has taken the lock and sent the payout,
   and waits for the recipient to return with its record still unsettled. *)
MonadFlip_entropyCallback(sequenceNumber, randomNumber) ==
    LET bet == bets[sequenceNumber]
        result == CoinSide(randomNumber)
        won == (bet.guess = result)
        payout == calculatePayout(bet.amount)
    IN
    IF locked
    THEN Revert("entropyCallback", "Reentrant call", sequenceNumber,
                sequenceNumber)
    ELSE IF ~(~bet.isSettled)
    THEN Revert("entropyCallback", "Bet already settled", sequenceNumber,
                sequenceNumber)
    ELSE IF ~(bet.player # Zero)
    THEN Revert("entropyCallback", "Invalid bet", sequenceNumber,
                sequenceNumber)
    ELSE IF won /\ balance < payout
    THEN Revert("entropyCallback", "Payout transfer failed", sequenceNumber,
                sequenceNumber)
    ELSE IF won
    THEN
      /\ locked' = TRUE
      /\ balance' = balance - payout
      /\ stack' = << Frame("entropyCallback", sequenceNumber, sequenceNumber,
                           bet.player, payout, result, won) >> \o stack
      /\ last' = Sending("entropyCallback", sequenceNumber, sequenceNumber,
                         bet.player, payout)
      /\ UNCHANGED << storage, chain, oracle, lastEvent, commit, frontend,
                      feePercentage, minimumBet, maximumBet, paused,
                      maxConcurrentBets, activeBetsCount, bets, playerBets >>
    ELSE
      /\ MonadFlip_settle(sequenceNumber, result, won, 0)
      /\ last' = Ok("entropyCallback", sequenceNumber, sequenceNumber,
                    Zero, 0)
      /\ UNCHANGED << balance, stack >>

(* entropyCallback after its payout transfer has returned *)
MonadFlip_entropyCallback_return ==
    LET f == Head(stack) IN
    /\ MonadFlip_settle(f.handle, f.result, f.won, f.amt)
    /\ stack' = Tail(stack)
    /\ last' = Ok("entropyCallback", f.id, f.handle, f.to, f.amt)
    /\ UNCHANGED balance

MonadFlip_setFeePercentage(sender, _feePercentage) ==
    IF ~(sender = owner)
    THEN Revert("setFeePercentage", "Only owner can call this function",
                0, 0)
    ELSE IF ~(_feePercentage <= 2000)
    THEN Revert("setFeePercentage", "Fee cannot exceed 20%", 0, 0)
    ELSE
      /\ feePercentage' = _feePercentage
      /\ last' = Ok("setFeePercentage", 0, 0, Zero, 0)
      /\ UNCHANGED << ledger, chain, oracle, stack, lastEvent, minimumBet,
                      maximumBet, paused, locked, maxConcurrentBets,
                      activeBetsCount, bets, playerBets, commit,
                      frontend >>

MonadFlip_setBetLimits(sender, _minimumBet, _maximumBet) ==
    IF ~(sender = owner)
    THEN Revert("setBetLimits", "Only owner can call this function", 0, 0)
    ELSE IF ~(_minimumBet > 0)
    THEN Revert("setBetLimits", "Minimum bet must be greater than 0", 0, 0)
    ELSE IF ~(_maximumBet > _minimumBet)
    THEN Revert("setBetLimits", "Maximum bet must be greater than minimum",
                0, 0)
    ELSE
      /\ minimumBet' = _minimumBet
      /\ maximumBet' = _maximumBet
      /\ last' = Ok("setBetLimits", 0, 0, Zero, 0)
      /\ UNCHANGED << ledger, chain, oracle, stack, lastEvent, feePercentage,
                      paused, locked, maxConcurrentBets, activeBetsCount,
                      bets, playerBets, commit,
                      frontend >>

MonadFlip_withdrawFees(sender, amount) ==
    IF ~(sender = owner)
    THEN Revert("withdrawFees", "Only owner can call this function", 0, 0)
    ELSE IF locked
    THEN Revert("withdrawFees", "Reentrant call", 0, 0)
    ELSE IF ~(amount <= balance)
    THEN Revert("withdrawFees", "Insufficient contract balance", 0, 0)
    ELSE
      /\ balance' = balance - amount
      /\ last' = Ok("withdrawFees", 0, 0, owner, amount)
      /\ UNCHANGED << storage, chain, oracle, monad, stack,
                      lastEvent >>

MonadFlip_transferOwnership(sender, newOwner) ==
    IF ~(sender = owner)
    THEN Revert("transferOwnership", "Only owner can call this function",
                0, 0)
    ELSE IF ~(newOwner # Zero)
    THEN Revert("transferOwnership", "New owner cannot be zero address", 0, 0)
    ELSE IF ~(newOwner # owner)
    THEN Revert("transferOwnership", "New owner must be different", 0, 0)
    ELSE
      /\ owner' = newOwner
      /\ last' = Ok("transferOwnership", 0, 0, Zero, 0)
      /\ UNCHANGED << minBet, maxBet, houseFees, gameIdCounter, games,
                      playerGames, sequenceToGameId, balance,
                      chain, oracle, monad, stack, lastEvent >>

MonadFlip_setMaxConcurrentBets(sender, _maxConcurrentBets) ==
    IF ~(sender = owner)
    THEN Revert("setMaxConcurrentBets", "Only owner can call this function",
                0, 0)
    ELSE IF ~(_maxConcurrentBets > 0)
    THEN Revert("setMaxConcurrentBets", "Max concurrent bets must be > 0",
                0, 0)
    ELSE
      /\ maxConcurrentBets' = _maxConcurrentBets
      /\ last' = Ok("setMaxConcurrentBets", 0, 0, Zero, 0)
      /\ UNCHANGED << ledger, chain, oracle, stack, lastEvent, feePercentage,
                      minimumBet, maximumBet, paused, locked,
                      activeBetsCount, bets, playerBets, commit,
                      frontend >>

MonadFlip_pause(sender) ==
    IF ~(sender = owner)
    THEN Revert("pause", "Only owner can call this function", 0, 0)
    ELSE
      /\ paused' = TRUE
      /\ last' = Ok("pause", 0, 0, Zero, 0)
      /\ UNCHANGED << ledger, chain, oracle, stack, lastEvent, feePercentage,
                      minimumBet, maximumBet, locked, maxConcurrentBets,
                      activeBetsCount, bets, playerBets, commit,
                      frontend >>

MonadFlip_unpause(sender) ==
    IF ~(sender = owner)
    THEN Revert("unpause", "Only owner can call this function", 0, 0)
    ELSE
      /\ paused' = FALSE
      /\ last' = Ok("unpause", 0, 0, Zero, 0)
      /\ UNCHANGED << ledger, chain, oracle, stack, lastEvent, feePercentage,
                      minimumBet, maximumBet, locked, maxConcurrentBets,
                      activeBetsCount, bets, playerBets, commit,
                      frontend >>

(* emergencyWithdraw without the require on paused *)
MonadFlip_emergencyWithdraw_Unpaused(sender) ==
    IF ~(sender = owner)
    THEN Revert("emergencyWithdraw", "Only owner can call this function",
                0, 0)
    ELSE
      /\ balance' = 0
      /\ last' = Ok("emergencyWithdraw", 0, 0, owner, balance)
      /\ UNCHANGED << storage, chain, oracle, monad, stack, lastEvent >>

(* emergencyWithdraw sends the whole balance to the owner; it does not take
   the reentrancy lock. *)
MonadFlip_emergencyWithdraw(sender) ==
    IF ~(sender = owner)
    THEN Revert("emergencyWithdraw", "Only owner can call this function",
                0, 0)
    ELSE IF ~paused
    THEN Revert("emergencyWithdraw",
                "Contract must be paused for emergency withdrawal", 0, 0)
    ELSE
      /\ balance' = 0
      /\ last' = Ok("emergencyWithdraw", 0, 0, owner, balance)
      /\ UNCHANGED << storage, chain, oracle, monad, stack, lastEvent >>

----------------------------------------------------------------------------
(* MonadFlipWithCommitReveal: MonadFlip with placeBet replaced by
   commitRandomness and revealAndPlaceBet *)

(* commitRandomness that replaces a commitment that is still active *)
CommitReveal_commitRandomness_Replaces(sender, _commitment) ==
    IF ~(_commitment # ZeroBytes32)
    THEN Revert("commitRandomness", "Invalid commitment", 0, 0)
    ELSE
      /\ commitments' = [ commitments EXCEPT ![sender] =
            [ commitment |-> _commitment, timestamp |-> now,
              revealed |-> FALSE ] ]
      /\ last' = Ok("commitRandomness", 0, 0, Zero, 0)
      /\ UNCHANGED << ledger, chain, oracle, stack, lastEvent, feePercentage,
                      minimumBet, maximumBet, paused, locked,
                      maxConcurrentBets, activeBetsCount, bets, playerBets,
                      commitmentDuration, revealDeadline, frontend >>

(* Step 1: commitRandomness *)
CommitReveal_commitRandomness(sender, _commitment) ==
    IF ~(_commitment # ZeroBytes32)
    THEN Revert("commitRandomness", "Invalid commitment", 0, 0)
    ELSE IF ~(commitments[sender].timestamp = 0
              \/ now > commitments[sender].timestamp + revealDeadline)
    THEN Revert("commitRandomness", "Previous commitment still active", 0, 0)
    ELSE
      /\ commitments' = [ commitments EXCEPT ![sender] =
            [ commitment |-> _commitment, timestamp |-> now,
              revealed |-> FALSE ] ]
      /\ last' = Ok("commitRandomness", 0, 0, Zero, 0)
      /\ UNCHANGED << ledger, chain, oracle, stack, lastEvent, feePercentage,
                      minimumBet, maximumBet, paused, locked,
                      maxConcurrentBets, activeBetsCount, bets, playerBets,
                      commitmentDuration, revealDeadline, frontend >>

(* revealAndPlaceBet without the wait between commit and reveal *)
CommitReveal_revealAndPlaceBet_NoWait(sender, _guess, _randomness, _nonce, value) ==
    LET commitment == commitments[sender] IN
    IF _guess \notin {0, 1}
    THEN Revert("revealAndPlaceBet", "Panic", 0, 0)
    ELSE IF ~(value >= minimumBet)
    THEN Revert("revealAndPlaceBet", "Bet amount too low", 0, 0)
    ELSE IF ~(value <= maximumBet)
    THEN Revert("revealAndPlaceBet", "Bet amount too high", 0, 0)
    ELSE IF paused
    THEN Revert("revealAndPlaceBet", "Contract is paused", 0, 0)
    ELSE IF locked
    THEN Revert("revealAndPlaceBet", "Reentrant call", 0, 0)
    ELSE IF ~(commitment.timestamp # 0)
    THEN Revert("revealAndPlaceBet", "No commitment found", 0, 0)
    ELSE IF ~(~commitment.revealed)
    THEN Revert("revealAndPlaceBet", "Already revealed", 0, 0)
    ELSE IF ~(now <= commitment.timestamp + revealDeadline)
    THEN Revert("revealAndPlaceBet", "Reveal deadline passed", 0, 0)
    ELSE IF ~(keccak256(_randomness, _nonce) = commitment.commitment)
    THEN Revert("revealAndPlaceBet", "Invalid reveal", 0, 0)
    ELSE IF ~(activeBetsCount < maxConcurrentBets)
    THEN Revert("revealAndPlaceBet", "Too many concurrent bets", 0, 0)
    ELSE IF ~(_randomness # 0)
    THEN Revert("revealAndPlaceBet", "Invalid user randomness", 0, 0)
    ELSE IF value < EntropyFee
    THEN Revert("revealAndPlaceBet", "Panic", 0, 0)
    ELSE LET entropyFee == EntropyFee
             betAmount == value - entropyFee
             potentialPayout == calculatePayout(betAmount)
             sequenceNumber == nextSeq
         IN
         IF ~(balance + value >= potentialPayout)
         THEN Revert("revealAndPlaceBet",
                     "Contract insufficient balance for potential payout",
                     0, 0)
         ELSE
           /\ commitments' = [ commitments EXCEPT ![sender].revealed = TRUE ]
           /\ balance' = balance + value - entropyFee
           /\ nextSeq' = nextSeq + 1
           /\ requests' = requests \cup {sequenceNumber}
           /\ bets' = [ bets EXCEPT ![sequenceNumber] =
                 [ player |-> sender, amount |-> betAmount,
                   guess |-> _guess, isSettled |-> FALSE, won |-> FALSE,
                   payout |-> 0 ] ]
           /\ playerBets' = [ playerBets EXCEPT
                                ![sender] = Append(@, sequenceNumber) ]
           /\ activeBetsCount' = activeBetsCount + 1
           /\ lastEvent' = [ lastEvent EXCEPT ![sequenceNumber] =
                               BetPlaced(sender, value, _guess) ]
           /\ last' = Ok("revealAndPlaceBet", sequenceNumber, sequenceNumber,
                         Zero, 0)
           /\ UNCHANGED << storage, chain, stack, feePercentage, minimumBet,
                           maximumBet, paused, locked, maxConcurrentBets,
                           commitmentDuration, revealDeadline, frontend >>

(* Step 2: revealAndPlaceBet, with _placeBetInternal and an oracle that
   delivers its callback in a later transaction. *)
CommitReveal_revealAndPlaceBet(sender, _guess, _randomness, _nonce, value) ==
    LET commitment == commitments[sender] IN
    IF _guess \notin {0, 1}
    THEN Revert("revealAndPlaceBet", "Panic", 0, 0)
    ELSE IF ~(value >= minimumBet)
    THEN Revert("revealAndPlaceBet", "Bet amount too low", 0, 0)
    ELSE IF ~(value <= maximumBet)
    THEN Revert("revealAndPlaceBet", "Bet amount too high", 0, 0)
    ELSE IF paused
    THEN Revert("revealAndPlaceBet", "Contract is paused", 0, 0)
    ELSE IF locked
    THEN Revert("revealAndPlaceBet", "Reentrant call", 0, 0)
    ELSE IF ~(commitment.timestamp # 0)
    THEN Revert("revealAndPlaceBet", "No commitment found", 0, 0)
    ELSE IF ~(~commitment.revealed)
    THEN Revert("revealAndPlaceBet", "Already revealed", 0, 0)
    ELSE IF ~(now >= commitment.timestamp + commitmentDuration)
    THEN Revert("revealAndPlaceBet", "Must wait before revealing", 0, 0)
    ELSE IF ~(now <= commitment.timestamp + revealDeadline)
    THEN Revert("revealAndPlaceBet", "Reveal deadline passed", 0, 0)
    ELSE IF ~(keccak256(_randomness, _nonce) = commitment.commitment)
    THEN Revert("revealAndPlaceBet", "Invalid reveal", 0, 0)
    ELSE IF ~(activeBetsCount < maxConcurrentBets)
    THEN Revert("revealAndPlaceBet", "Too many concurrent bets", 0, 0)
    ELSE IF ~(_randomness # 0)
    THEN Revert("revealAndPlaceBet", "Invalid user randomness", 0, 0)
    ELSE IF value < EntropyFee
    THEN Revert("revealAndPlaceBet", "Panic", 0, 0)
    ELSE LET entropyFee == EntropyFee
             betAmount == value - entropyFee
             potentialPayout == calculatePayout(betAmount)
             sequenceNumber == nextSeq
         IN
         IF ~(balance + value >= potentialPayout)
         THEN Revert("revealAndPlaceBet",
                     "Contract insufficient balance for potential payout",
                     0, 0)
         ELSE
           /\ commitments' = [ commitments EXCEPT ![sender].revealed = TRUE ]
           /\ balance' = balance + value - entropyFee
           /\ nextSeq' = nextSeq + 1
           /\ requests' = requests \cup {sequenceNumber}
           /\ bets' = [ bets EXCEPT ![sequenceNumber] =
                 [ player |-> sender, amount |-> betAmount,
                   guess |-> _guess, isSettled |-> FALSE, won |-> FALSE,
                   payout |-> 0 ] ]
           /\ playerBets' = [ playerBets EXCEPT
                                ![sender] = Append(@, sequenceNumber) ]
           /\ activeBetsCount' = activeBetsCount + 1
           /\ lastEvent' = [ lastEvent EXCEPT ![sequenceNumber] =
                               BetPlaced(sender, value, _guess) ]
           /\ last' = Ok("revealAndPlaceBet", sequenceNumber, sequenceNumber,
                         Zero, 0)
           /\ UNCHANGED << storage, chain, stack, feePercentage, minimumBet,
                           maximumBet, paused, locked, maxConcurrentBets,
                           commitmentDuration, revealDeadline, frontend >>

(* placeBet as overridden: it has no modifier and always reverts. *)
CommitReveal_placeBet(sender, _guess, _userRandomness, value) ==
    IF _guess \notin {0, 1}
    THEN Revert("placeBet", "Panic", 0, 0)
    ELSE Revert("placeBet", "Use commit-reveal scheme", 0, 0)

(* setCommitmentTiming without the require on the deadline *)
CommitReveal_setCommitmentTiming_AnyDeadline(sender, _commitmentDuration, _revealDeadline) ==
    IF ~(sender = owner)
    THEN Revert("setCommitmentTiming", "Only owner can call this function",
                0, 0)
    ELSE IF ~(_commitmentDuration > 0)
    THEN Revert("setCommitmentTiming", "Duration must be > 0", 0, 0)
    ELSE
      /\ commitmentDuration' = _commitmentDuration
      /\ revealDeadline' = _revealDeadline
      /\ last' = Ok("setCommitmentTiming", 0, 0, Zero, 0)
      /\ UNCHANGED << ledger, chain, oracle, stack, lastEvent, feePercentage,
                      minimumBet, maximumBet, paused, locked,
                      maxConcurrentBets, activeBetsCount, bets, playerBets,
                      commitments, frontend >>

CommitReveal_setCommitmentTiming(sender, _commitmentDuration, _revealDeadline) ==
    IF ~(sender = owner)
    THEN Revert("setCommitmentTiming", "Only owner can call this function",
                0, 0)
    ELSE IF ~(_commitmentDuration > 0)
    THEN Revert("setCommitmentTiming", "Duration must be > 0", 0, 0)
    ELSE IF ~(_revealDeadline > _commitmentDuration)
    THEN Revert("setCommitmentTiming", "Deadline must be > duration", 0, 0)
    ELSE
      /\ commitmentDuration' = _commitmentDuration
      /\ revealDeadline' = _revealDeadline
      /\ last' = Ok("setCommitmentTiming", 0, 0, Zero, 0)
      /\ UNCHANGED << ledger, chain, oracle, stack, lastEvent, feePercentage,
                      minimumBet, maximumBet, paused, locked,
                      maxConcurrentBets, activeBetsCount, bets, playerBets,
                      commitments, frontend >>

CommitReveal_cleanupCommitment(sender, player) ==
    LET commitment == commitments[player] IN
    IF ~(commitment.timestamp # 0)
    THEN Revert("cleanupCommitment", "No commitment found", 0, 0)
    ELSE IF ~(now > commitment.timestamp + revealDeadline)
    THEN Revert("cleanupCommitment", "Commitment not expired", 0, 0)
    ELSE
      /\ commitments' = [ commitments EXCEPT ![player] = NoCommitment ]
      /\ last' = Ok("cleanupCommitment", 0, 0, Zero, 0)
      /\ UNCHANGED << ledger, chain, oracle, stack, lastEvent, feePercentage,
                      minimumBet, maximumBet, paused, locked,
                      maxConcurrentBets, activeBetsCount, bets, playerBets,
                      commitmentDuration, revealDeadline, frontend >>

----------------------------------------------------------------------------
(* The chain *)

(* A new block is mined: block.timestamp advances. *)
Tick ==
    /\ stack = << >>
    /\ blockNumber < MaxBlocks
    /\ \E d \in BlockTimes : now' = now + d
    /\ blockNumber' = blockNumber + 1
    /\ UNCHANGED << contract, ledger, oracle, last, monad, stack, lastEvent >>

----------------------------------------------------------------------------
(* MonadFlip itself or MonadFlipWithCommitReveal, which inherits it. *)
MonadFlipDeployed == contract \in {"MonadFlip", "MonadFlipWithCommitReveal"}

(* Transactions of CoinFlipV2 *)

V2PlaceBet(maxGames, bettors) ==
    /\ contract = "CoinFlipV2"
    /\ stack = << >>
    /\ gameIdCounter < maxGames
    /\ \E sender \in bettors, c \in Choices, v \in BetValues :
          CoinFlipV2_placeBet(sender, c, v)

(* The oracle answers an outstanding request. *)
V2Callback ==
    /\ contract = "CoinFlipV2"
    /\ \E s \in requests, r \in RandomNumbers :
          CoinFlipV2_entropyCallback(s, r)

(* The oracle delivers a callback for a sequence number that has no
   outstanding request: a repeated or a never issued one. *)
V2StrayCallback ==
    /\ contract = "CoinFlipV2"
    /\ houseFees < MaxFees
    /\ \E s \in Seqs \ requests, r \in RandomNumbers :
          CoinFlipV2_entropyCallback(s, r)

V2CancelGame ==
    /\ contract = "CoinFlipV2"
    /\ \E sender \in Addresses, g \in GameIds :
          CoinFlipV2_cancelGame(sender, g)

V2Deposit ==
    /\ contract = "CoinFlipV2"
    /\ \E sender \in Addresses, v \in DepositValues :
          /\ balance + v <= MaxBalance
          /\ CoinFlipV2_depositHouseFunds(sender, v)

V2WithdrawHouseFees ==
    /\ contract = "CoinFlipV2"
    /\ \E sender \in Addresses, a \in WithdrawAmounts :
          CoinFlipV2_withdrawHouseFees(sender, a)

V2EmergencyWithdraw ==
    /\ contract = "CoinFlipV2"
    /\ \E sender \in Addresses : CoinFlipV2_emergencyWithdraw(sender)

(* Transactions of CoinFlip *)

V1PlaceBet(maxGames, bettors) ==
    /\ contract = "CoinFlip"
    /\ stack = << >>
    /\ gameIdCounter < maxGames
    /\ \E sender \in bettors, c \in Choices, u \in UserRandomness,
          v \in BetValues :
          CoinFlip_placeBet(sender, c, u, v)

V1RevealResult ==
    /\ contract = "CoinFlip"
    /\ \E g \in GameIds, r \in RandomNumbers : CoinFlip_revealResult(g, r)

V1CancelGame ==
    /\ contract = "CoinFlip"
    /\ \E sender \in Addresses, g \in GameIds :
          CoinFlip_cancelGame(sender, g)

V1Deposit ==
    /\ contract = "CoinFlip"
    /\ \E sender \in Addresses, v \in DepositValues :
          /\ balance + v <= MaxBalance
          /\ CoinFlip_depositHouseFunds(sender, v)

V1WithdrawHouseFees ==
    /\ contract = "CoinFlip"
    /\ \E sender \in Addresses, a \in WithdrawAmounts :
          CoinFlip_withdrawHouseFees(sender, a)

V1EmergencyWithdraw ==
    /\ contract = "CoinFlip"
    /\ \E sender \in Addresses : CoinFlip_emergencyWithdraw(sender)

V2SetMinBet ==
    /\ contract = "CoinFlipV2"
    /\ \E sender \in Addresses, m \in MinBetValues :
          CoinFlipV2_setMinBet(sender, m)

V2SetMaxBet ==
    /\ contract = "CoinFlipV2"
    /\ \E sender \in Addresses, m \in MaxBetValues :
          CoinFlipV2_setMaxBet(sender, m)

V2TransferOwnership ==
    /\ contract = "CoinFlipV2"
    /\ \E sender \in Addresses, a \in NewOwners :
          CoinFlipV2_transferOwnership(sender, a)

V1SetMinBet ==
    /\ contract = "CoinFlip"
    /\ \E sender \in Addresses, m \in MinBetValues :
          CoinFlip_setMinBet(sender, m)

V1SetMaxBet ==
    /\ contract = "CoinFlip"
    /\ \E sender \in Addresses, m \in MaxBetValues :
          CoinFlip_setMaxBet(sender, m)

V1TransferOwnership ==
    /\ contract = "CoinFlip"
    /\ \E sender \in Addresses, a \in NewOwners :
          CoinFlip_transferOwnership(sender, a)

(* Transactions of MonadFlip *)

MPlaceBet(maxGames, bettors) ==
    /\ contract = "MonadFlip"
    /\ stack = << >>
    /\ nextSeq - FirstSequence < maxGames
    /\ \E sender \in bettors, c \in Choices, u \in UserRandomness,
          v \in MonadBetValues :
          MonadFlip_placeBet(sender, c, u, v)

(* The oracle answers an outstanding request. *)
MCallback ==
    /\ MonadFlipDeployed
    /\ stack = << >>
    /\ \E s \in requests, r \in RandomNumbers :
          MonadFlip_entropyCallback(s, r)

(* The recipient of the payout returns. *)
MCallbackReturn ==
    /\ MonadFlipDeployed
    /\ stack # << >>
    /\ Head(stack).op = "entropyCallback"
    /\ MonadFlip_entropyCallback_return

MSetBetLimits ==
    /\ MonadFlipDeployed
    /\ \E sender \in Addresses, lo \in MinBetValues, hi \in MaxBetValues :
          MonadFlip_setBetLimits(sender, lo, hi)

MWithdrawFees ==
    /\ contract = "MonadFlip"
    /\ \E sender \in Addresses, a \in MonadWithdrawAmounts :
          MonadFlip_withdrawFees(sender, a)

MTransferOwnership ==
    /\ MonadFlipDeployed
    /\ \E sender \in Addresses, a \in NewOwners :
          MonadFlip_transferOwnership(sender, a)

(* Transactions whose payout or refund goes to a contract: the call is
   suspended in the transfer until the recipient returns. *)

(* placeBet against the oracle that calls back at once *)
MPlaceBetSync ==
    /\ contract = "MonadFlip"
    /\ stack = << >>
    /\ nextSeq - FirstSequence < MaxGames
    /\ \E sender \in Players, c \in Choices, u \in UserRandomness,
          v \in MonadBetValues, r \in RandomNumbers :
          MonadFlip_placeBet_sync(sender, c, u, v, r)

(* A call of the view function calculatePayout.  The record of the call
   holds the argument in id and the value returned in amt; both are in wei
   here, the function being the same in every unit. *)
MCalculatePayout ==
    /\ contract = "MonadFlip"
    /\ \E betAmount \in PayoutArguments :
          last' = Ok("calculatePayout", betAmount, 0, Zero,
                     calculatePayout(betAmount))
    /\ UNCHANGED << ledger, chain, oracle, monad, stack, lastEvent >>

MSetMaxConcurrentBets ==
    /\ MonadFlipDeployed
    /\ stack = << >>
    /\ \E sender \in Addresses, n \in ConcurrentLimits :
          MonadFlip_setMaxConcurrentBets(sender, n)

MPause ==
    /\ MonadFlipDeployed
    /\ stack = << >>
    /\ \E sender \in Addresses : MonadFlip_pause(sender)

MUnpause ==
    /\ MonadFlipDeployed
    /\ stack = << >>
    /\ \E sender \in Addresses : MonadFlip_unpause(sender)

MEmergencyWithdraw ==
    /\ MonadFlipDeployed
    /\ stack = << >>
    /\ \E sender \in Addresses : MonadFlip_emergencyWithdraw(sender)

(* Transactions of MonadFlipWithCommitReveal *)

CRCommitRandomness ==
    /\ contract = "MonadFlipWithCommitReveal"
    /\ stack = << >>
    /\ \E _commitment \in CommitmentValues :
          CommitReveal_commitRandomness(Bettor, _commitment)

(* Once MaxGames bets were accepted, only the replay of a revealed commitment
   is attempted. *)
CRRevealAndPlaceBet ==
    /\ contract = "MonadFlipWithCommitReveal"
    /\ stack = << >>
    /\ nextSeq - FirstSequence < MaxGames \/ commitments[Bettor].revealed
    /\ \E c \in Choices, r \in RevealRandomness, n \in RevealNonces,
          v \in RevealValues :
          CommitReveal_revealAndPlaceBet(Bettor, c, r, n, v)

CRPlaceBet ==
    /\ contract = "MonadFlipWithCommitReveal"
    /\ stack = << >>
    /\ \E c \in Choices, u \in UserRandomness, v \in RevealValues :
          CommitReveal_placeBet(Bettor, c, u, v)

CRSetCommitmentTiming ==
    /\ contract = "MonadFlipWithCommitReveal"
    /\ stack = << >>
    /\ \E sender \in {Deployer, Bettor}, t \in CommitmentTimings :
          CommitReveal_setCommitmentTiming(sender, t[1], t[2])

CRCleanupCommitment ==
    /\ contract = "MonadFlipWithCommitReveal"
    /\ stack = << >>
    /\ \E sender \in {Deployer}, player \in {Bettor} :
          CommitReveal_cleanupCommitment(sender, player)

(* Time passes to one of the instants around the two waiting periods. *)
ClockTick ==
    /\ stack = << >>
    /\ \E t \in ClockTimes : t > now /\ now' = t
    /\ UNCHANGED << contract, ledger, blockNumber, oracle, last, monad,
                    stack, lastEvent >>

(* The recipient of a payout of MonadFlip or of its extension is a contract:
   before it returns it calls a function of the betting contract. *)
MCallWhileLocked ==
    /\ MonadFlipDeployed
    /\ stack # << >>
    /\ LET sender == Head(stack).to IN
          \/ /\ contract = "MonadFlip"
             /\ \E c \in Choices, u \in UserRandomness, v \in RevealValues :
                   MonadFlip_placeBet(sender, c, u, v)
          \/ /\ contract = "MonadFlipWithCommitReveal"
             /\ \E c \in Choices, r \in RevealRandomness, n \in RevealNonces,
                   v \in RevealValues :
                   CommitReveal_revealAndPlaceBet(sender, c, r, n, v)
          \/ /\ contract = "MonadFlipWithCommitReveal"
             /\ \E _commitment \in CommitmentValues :
                   CommitReveal_commitRandomness(sender, _commitment)
          \/ /\ contract = "MonadFlipWithCommitReveal"
             /\ CommitReveal_cleanupCommitment(sender, sender)
          \/ /\ contract = "MonadFlipWithCommitReveal"
             /\ \E t \in CommitmentTimings :
                   CommitReveal_setCommitmentTiming(sender, t[1], t[2])
          \/ \E s \in requests, r \in RandomNumbers :
                MonadFlip_entropyCallback(s, r)
          \/ \E a \in MonadWithdrawAmounts :
                MonadFlip_withdrawFees(sender, a)
          \/ \E lo \in MinBetValues, hi \in MaxBetValues :
                MonadFlip_setBetLimits(sender, lo, hi)
          \/ \E n \in ConcurrentLimits :
                MonadFlip_setMaxConcurrentBets(sender, n)
          \/ MonadFlip_pause(sender)
          \/ MonadFlip_unpause(sender)
          \/ MonadFlip_emergencyWithdraw(sender)
          \/ \E a \in NewOwners : MonadFlip_transferOwnership(sender, a)

(* The two amounts the betting contracts compute from a stake, in wei: the
   potential payout of placeBet's balance check, and then the payout of a
   won resolution of the same stake. *)
ComputePotentialPayout ==
    /\ \E betAmount \in StakeArguments :
          last' = Ok("potentialPayout", betAmount, 0, Zero,
                     PotentialPayout(betAmount))
    /\ UNCHANGED << ledger, chain, oracle, monad, stack, lastEvent >>

ComputePayout ==
    /\ last.op = "potentialPayout"
    /\ last' = Ok("payout", last.id, 0, Zero, Payout(last.id))
    /\ UNCHANGED << ledger, chain, oracle, monad, stack, lastEvent >>

MSetFeePercentage ==
    /\ MonadFlipDeployed
    /\ stack = << >>
    /\ \E sender \in Addresses, f \in FeePercentages :
          MonadFlip_setFeePercentage(sender, f)

----------------------------------------------------------------------------
(* The component CoinFlip.tsx, connected as Bettor to CoinFlipV2 *)

(* handlePlaceBet; the button is disabled while isPending, isConfirming or
   isFlipping. *)
UI_handlePlaceBet ==
    /\ ~isFlipping
    /\ transaction.status # "pending"
    /\ isFlipping' = TRUE
    /\ statusMessage' = Message("Placing bet...", NoGame, FALSE)
    /\ transaction' = Transaction("pending", gameIdCounter, NoGame)
    /\ UNCHANGED << currentGameId, delivered >>

(* useWriteContract reports an error: the wallet or the simulation rejected
   the transaction. *)
UI_writeError ==
    /\ transaction.status = "pending"
    /\ gameIdCounter = transaction.sent
    /\ transaction' = Transaction("error", transaction.sent, NoGame)
    /\ UNCHANGED << isFlipping, currentGameId, statusMessage, delivered >>

(* useWaitForTransactionReceipt reports the receipt of the mined bet. *)
UI_receipt ==
    /\ transaction.status = "pending"
    /\ gameIdCounter > transaction.sent
    /\ transaction' = Transaction("confirmed", transaction.sent,
                                  transaction.sent)
    /\ UNCHANGED << isFlipping, currentGameId, statusMessage, delivered >>

(* The effect on the confirmation: no log of the receipt has the topic
   '0x' + 'BetPlaced'.padEnd(64, '0'), so the effect always starts the
   fallback timer; on an error it stops the flipping. *)
UI_confirmationEffect ==
    /\ transaction.status \in {"confirmed", "error"}
    /\ IF transaction.status = "confirmed"
       THEN /\ statusMessage' =
                  Message("Bet placed! Polling for game ID...", NoGame, FALSE)
            /\ transaction' = [ transaction EXCEPT !.status = "polling" ]
            /\ UNCHANGED isFlipping
       ELSE /\ statusMessage' = Message("Error", NoGame, FALSE)
            /\ isFlipping' = FALSE
            /\ transaction' = [ transaction EXCEPT !.status = "done" ]
    /\ UNCHANGED << currentGameId, delivered >>

(* The fallback timer: the latest game id of getPlayerGames(address) *)
UI_fallbackGameId ==
    LET gameIds == playerGames[Bettor] IN
    /\ transaction.status = "polling"
    /\ currentGameId' = IF Len(gameIds) > 0 THEN gameIds[Len(gameIds)]
                        ELSE currentGameId
    /\ transaction' = [ transaction EXCEPT !.status = "done" ]
    /\ UNCHANGED << isFlipping, statusMessage, delivered >>

(* onLogs of the BetPlaced watcher, given the log of game gameId *)
UI_onBetPlaced(gameId) ==
    /\ << "BetPlaced", gameId >> \notin delivered
    /\ games[gameId].player # Zero
    /\ delivered' = delivered \cup {<< "BetPlaced", gameId >>}
    /\ IF games[gameId].player = Bettor /\ isFlipping
       THEN currentGameId' = gameId
       ELSE UNCHANGED currentGameId
    /\ UNCHANGED << isFlipping, statusMessage, transaction >>

(* onLogs of the GameResult watcher, given the log of game gameId *)
UI_onGameResult(gameId) ==
    LET log == lastEvent[gameId] IN
    /\ log.name = "GameResult"
    /\ << "GameResult", gameId >> \notin delivered
    /\ delivered' = delivered \cup {<< "GameResult", gameId >>}
    /\ IF log.player = Bettor /\ isFlipping
       THEN /\ statusMessage' = Message("result", gameId, log.won)
            /\ isFlipping' = FALSE
            /\ currentGameId' = NoGame
       ELSE UNCHANGED << statusMessage, isFlipping, currentGameId >>
    /\ UNCHANGED transaction

(* One tick of the polling interval; the effect does not start the interval
   when !currentGameId, which is the case for null and for game 0. *)
UI_poll ==
    LET game == games[currentGameId] IN
    /\ currentGameId # NoGame
    /\ currentGameId # 0
    /\ isFlipping
    /\ IF game.state = "Revealed"
       THEN /\ statusMessage' = Message("result", currentGameId, game.won)
            /\ isFlipping' = FALSE
            /\ currentGameId' = NoGame
       ELSE /\ statusMessage' =
                  Message("Waiting for Pyth Entropy to reveal result...",
                          NoGame, FALSE)
            /\ UNCHANGED << isFlipping, currentGameId >>
    /\ UNCHANGED << transaction, delivered >>

(* Steps of the component; the contract is not touched. *)
UIHandlePlaceBet ==
    /\ UI_handlePlaceBet
    /\ UNCHANGED << ledger, chain, oracle, last, lastEvent, stack,
                    feePercentage, minimumBet, maximumBet, paused, locked,
                    maxConcurrentBets, activeBetsCount, bets, playerBets,
                    commit >>

UIWriteError ==
    /\ UI_writeError
    /\ UNCHANGED << ledger, chain, oracle, last, lastEvent, stack,
                    feePercentage, minimumBet, maximumBet, paused, locked,
                    maxConcurrentBets, activeBetsCount, bets, playerBets,
                    commit >>

UIReceipt ==
    /\ UI_receipt
    /\ UNCHANGED << ledger, chain, oracle, last, lastEvent, stack,
                    feePercentage, minimumBet, maximumBet, paused, locked,
                    maxConcurrentBets, activeBetsCount, bets, playerBets,
                    commit >>

UIConfirmationEffect ==
    /\ UI_confirmationEffect
    /\ UNCHANGED << ledger, chain, oracle, last, lastEvent, stack,
                    feePercentage, minimumBet, maximumBet, paused, locked,
                    maxConcurrentBets, activeBetsCount, bets, playerBets,
                    commit >>

UIFallbackGameId ==
    /\ UI_fallbackGameId
    /\ UNCHANGED << ledger, chain, oracle, last, lastEvent, stack,
                    feePercentage, minimumBet, maximumBet, paused, locked,
                    maxConcurrentBets, activeBetsCount, bets, playerBets,
                    commit >>

UIOnBetPlaced ==
    /\ \E gameId \in GameIds : UI_onBetPlaced(gameId)
    /\ UNCHANGED << ledger, chain, oracle, last, lastEvent, stack,
                    feePercentage, minimumBet, maximumBet, paused, locked,
                    maxConcurrentBets, activeBetsCount, bets, playerBets,
                    commit >>

UIOnGameResult ==
    /\ \E gameId \in GameIds : UI_onGameResult(gameId)
    /\ UNCHANGED << ledger, chain, oracle, last, lastEvent, stack,
                    feePercentage, minimumBet, maximumBet, paused, locked,
                    maxConcurrentBets, activeBetsCount, bets, playerBets,
                    commit >>

UIPoll ==
    /\ UI_poll
    /\ UNCHANGED << ledger, chain, oracle, last, lastEvent, stack,
                    feePercentage, minimumBet, maximumBet, paused, locked,
                    maxConcurrentBets, activeBetsCount, bets, playerBets,
                    commit >>

(* The bet of the component is mined. *)
UIBetMined ==
    /\ contract = "CoinFlipV2"
    /\ transaction.status = "pending"
    /\ gameIdCounter = transaction.sent
    /\ gameIdCounter <= MaxGames
    /\ CoinFlipV2_placeBet(Bettor, 0, ConstructorMinBet + EntropyFee)

(* The same player bets from another session. *)
OtherSessionBet ==
    /\ contract = "CoinFlipV2"
    /\ transaction.status # "pending"
    /\ gameIdCounter <= MaxGames
    /\ CoinFlipV2_placeBet(Bettor, 0, ConstructorMinBet + EntropyFee)

V2CallbackSend ==
    /\ contract = "CoinFlipV2"
    /\ stack = << >>
    /\ \E s \in requests, r \in RandomNumbers :
          CoinFlipV2_entropyCallback_send(s, r)

V2CallbackReturn ==
    /\ contract = "CoinFlipV2"
    /\ stack # << >>
    /\ Head(stack).op = "entropyCallback"
    /\ CoinFlipV2_entropyCallback_return

V2CancelGameSend ==
    /\ contract = "CoinFlipV2"
    /\ stack = << >>
    /\ \E sender \in Addresses, g \in GameIds :
          CoinFlipV2_cancelGame_send(sender, g)

V2CancelGameReturn ==
    /\ contract = "CoinFlipV2"
    /\ stack # << >>
    /\ Head(stack).op = "cancelGame"
    /\ CoinFlipV2_cancelGame_return

V1RevealResultSend ==
    /\ contract = "CoinFlip"
    /\ stack = << >>
    /\ \E g \in GameIds, r \in RandomNumbers :
          CoinFlip_revealResult_send(g, r)

V1RevealResultReturn ==
    /\ contract = "CoinFlip"
    /\ stack # << >>
    /\ Head(stack).op = "revealResult"
    /\ CoinFlip_revealResult_return

V1CancelGameSend ==
    /\ contract = "CoinFlip"
    /\ stack = << >>
    /\ \E sender \in Addresses, g \in GameIds :
          CoinFlip_cancelGame_send(sender, g)

V1CancelGameReturn ==
    /\ contract = "CoinFlip"
    /\ stack # << >>
    /\ Head(stack).op = "cancelGame"
    /\ CoinFlip_cancelGame_return

(* Calls made by the recipient of a transfer before it returns.  The
   recipient goes on when such a call reverts.  The recipient may call the
   entropy contract too, so the callback of an outstanding request (not the
   one being delivered) may arrive while the transfer is in flight. *)

V2Reenter ==
    /\ contract = "CoinFlipV2"
    /\ stack # << >>
    /\ LET sender == Head(stack).to IN
          \/ \E g \in GameIds : CoinFlipV2_cancelGame(sender, g)
          \/ \E s \in requests, r \in RandomNumbers :
                /\ ~(Head(stack).op = "entropyCallback"
                       /\ Head(stack).handle = s)
                /\ CoinFlipV2_entropyCallback(s, r)

V1Reenter ==
    /\ contract = "CoinFlip"
    /\ stack # << >>
    /\ LET sender == Head(stack).to IN
          \/ \E g \in GameIds : CoinFlip_cancelGame(sender, g)
          \/ \E g \in GameIds, r \in RandomNumbers :
                CoinFlip_revealResult(g, r)

MReenter ==
    /\ contract = "MonadFlip"
    /\ stack # << >>
    /\ LET sender == Head(stack).to IN
          \/ \E c \in Choices, u \in UserRandomness, v \in MonadBetValues :
                MonadFlip_placeBet(sender, c, u, v)
          \/ \E a \in MonadWithdrawAmounts :
                MonadFlip_withdrawFees(sender, a)

----------------------------------------------------------------------------
(* Specifications *)

(* Either contract, with the oracle answering every request at most once
   and time passing. *)
Init ==
    /\ contract \in {"CoinFlip", "CoinFlipV2"}
    /\ InitLedger

Next ==
    \/ V2PlaceBet(MaxGames, {Bettor})
    \/ V2Callback
    \/ V2CancelGame
    \/ V2Deposit
    \/ V2WithdrawHouseFees
    \/ V2EmergencyWithdraw
    \/ V1PlaceBet(MaxGames, {Bettor})
    \/ V1RevealResult
    \/ V1CancelGame
    \/ V1Deposit
    \/ V1WithdrawHouseFees
    \/ V1EmergencyWithdraw
    \/ Tick

Spec == Init /\ [][Next]_vars

(* CoinFlipV2 with an oracle that may also deliver callbacks nobody is
   waiting for. *)
InitV2 ==
    /\ contract = "CoinFlipV2"
    /\ InitLedger

NextStray ==
    \/ V2PlaceBet(MaxGames, {Bettor})
    \/ V2Callback
    \/ V2StrayCallback
    \/ V2CancelGame
    \/ Tick

SpecStray == InitV2 /\ [][NextStray]_vars

(* Many bets in one block: only bets and their resolutions. *)
NextLoad ==
    \/ V2PlaceBet(MaxBets, Players)
    \/ V2Callback
    \/ V1PlaceBet(MaxBets, Players)
    \/ V1RevealResult

SpecLoad == Init /\ [][NextLoad]_vars

(* Any of the three contracts with the owner's functions and callers of
   every kind; no resolution and no time. *)
InitAdmin ==
    /\ contract \in {"CoinFlip", "CoinFlipV2", "MonadFlip"}
    /\ InitLedger

NextAdmin ==
    \/ V2PlaceBet(MaxGames, {Bettor})
    \/ V2CancelGame
    \/ V2WithdrawHouseFees
    \/ V2EmergencyWithdraw
    \/ V2SetMinBet
    \/ V2SetMaxBet
    \/ V2TransferOwnership
    \/ V1PlaceBet(MaxGames, {Bettor})
    \/ V1CancelGame
    \/ V1WithdrawHouseFees
    \/ V1EmergencyWithdraw
    \/ V1SetMinBet
    \/ V1SetMaxBet
    \/ V1TransferOwnership
    \/ MPlaceBet(MaxGames, {Bettor})
    \/ MSetBetLimits
    \/ MWithdrawFees
    \/ MTransferOwnership

SpecAdmin == InitAdmin /\ [][NextAdmin]_vars

(* Any of the three contracts with a bettor that is a contract: it gets
   control when a payout or refund is sent to it and may call back into the
   betting contract before it returns. *)
NextReentry ==
    \/ V2PlaceBet(MaxGames, {Bettor})
    \/ V2CallbackSend
    \/ V2CallbackReturn
    \/ V2CancelGameSend
    \/ V2CancelGameReturn
    \/ V2Reenter
    \/ V1PlaceBet(MaxGames, {Bettor})
    \/ V1RevealResultSend
    \/ V1RevealResultReturn
    \/ V1CancelGameSend
    \/ V1CancelGameReturn
    \/ V1Reenter
    \/ MPlaceBet(MaxGames, {Bettor})
    \/ MCallback
    \/ MCallbackReturn
    \/ MReenter
    \/ Tick

SpecReentry == InitAdmin /\ [][NextReentry]_vars

(* MonadFlip deployed with the oracle of its test, which answers every
   request inside requestWithCallback, and the owner's functions. *)
InitMonad ==
    /\ contract = "MonadFlip"
    /\ InitLedger

NextSync ==
    \/ MPlaceBetSync
    \/ MSetBetLimits
    \/ MWithdrawFees
    \/ MTransferOwnership

SpecSync == InitMonad /\ [][NextSync]_vars

(* MonadFlip as deployed, asked for the payout of every bet amount. *)
NextPayout ==
    \/ MCalculatePayout

SpecPayout == InitMonad /\ [][NextPayout]_vars

(* A bet on Heads that passes the checks of placeBet, from any of the
   players. *)
PlaceValidBet ==
    /\ stack = << >>
    /\ \E sender \in Players :
          \/ /\ contract = "CoinFlipV2"
             /\ gameIdCounter < MaxHistory
             /\ CoinFlipV2_placeBet(sender, 0, ConstructorMinBet + EntropyFee)
          \/ /\ contract = "CoinFlip"
             /\ gameIdCounter < MaxHistory
             /\ CoinFlip_placeBet(sender, 0, 99, ConstructorMinBet + EntropyFee)
          \/ /\ contract = "MonadFlip"
             /\ nextSeq - FirstSequence < MaxHistory
             /\ MonadFlip_placeBet(sender, 0, 99,
                                   ConstructorMinBet + EntropyFee)

(* A player asks for one of their own Pending wagers to be cancelled. *)
PlayerCancels ==
    \E g \in GameIds :
       /\ games[g].player # Zero
       /\ games[g].state = "Pending"
       /\ \/ /\ contract = "CoinFlipV2"
             /\ CoinFlipV2_cancelGame(games[g].player, g)
          \/ /\ contract = "CoinFlip"
             /\ CoinFlip_cancelGame(games[g].player, g)

(* Any of the three contracts with several bets of two players, their
   resolutions and their cancellations. *)
NextHistory ==
    \/ PlaceValidBet
    \/ V2Callback
    \/ V1RevealResult
    \/ PlayerCancels
    \/ MCallback
    \/ MCallbackReturn
    \/ Tick

SpecHistory == InitAdmin /\ [][NextHistory]_vars

(* Any of the three contracts while the oracle is down: bets are accepted,
   no callback is delivered and no reveal is possible, time passes, and the
   bettor asks for every Pending wager to be cancelled for as long as that
   is possible.  MonadFlip has no function that cancels a bet. *)
NextOutage ==
    \/ V2PlaceBet(MaxGames, {Bettor})
    \/ V2CancelGame
    \/ V1PlaceBet(MaxGames, {Bettor})
    \/ V1CancelGame
    \/ MPlaceBet(MaxGames, {Bettor})
    \/ Tick

(* The bettor's request to cancel the Pending wager g. *)
BettorCancels(g) ==
    /\ games[g].player = Bettor
    /\ games[g].state = "Pending"
    /\ \/ contract = "CoinFlipV2" /\ CoinFlipV2_cancelGame(Bettor, g)
       \/ contract = "CoinFlip" /\ CoinFlip_cancelGame(Bettor, g)

SpecOutage ==
    /\ InitAdmin
    /\ [][NextOutage]_vars
    /\ WF_vars(Tick)
    /\ \A g \in GameIds : WF_vars(BettorCancels(g))

----------------------------------------------------------------------------
(* Properties *)

(* MonadFlip and its commit-reveal extension with the emergency controls;
   the clock starts at the deployment. *)
InitEmergency ==
    /\ contract \in {"MonadFlip", "MonadFlipWithCommitReveal"}
    /\ InitStorage
    /\ now = DeployTime

NextEmergency ==
    \/ MPlaceBet(MaxGames, {Bettor})
    \/ CRCommitRandomness
    \/ CRRevealAndPlaceBet
    \/ CRPlaceBet
    \/ CRSetCommitmentTiming
    \/ CRCleanupCommitment
    \/ MCallback
    \/ MCallbackReturn
    \/ MPause
    \/ MUnpause
    \/ MEmergencyWithdraw
    \/ ClockTick

SpecEmergency == InitEmergency /\ [][NextEmergency]_vars

(* MonadFlip with several bets in flight and the owner changing the limit on
   concurrent bets. *)
NextConcurrent ==
    \/ MPlaceBet(MaxHistory, {Bettor})
    \/ MCallback
    \/ MCallbackReturn
    \/ MSetMaxConcurrentBets

SpecConcurrent == InitMonad /\ [][NextConcurrent]_vars

(* MonadFlip and its extension with bettors that are contracts; in MonadFlip
   the owner bets too. *)
NextLock ==
    \/ MPlaceBet(MaxGames, {Bettor, Deployer})
    \/ CRCommitRandomness
    \/ CRRevealAndPlaceBet
    \/ MCallback
    \/ MCallbackReturn
    \/ MCallWhileLocked
    \/ ClockTick

SpecLock == InitEmergency /\ [][NextLock]_vars

(* CoinFlip or CoinFlipV2 computing the amounts of a stake. *)
NextAmounts ==
    \/ ComputePotentialPayout
    \/ ComputePayout

SpecAmounts == Init /\ [][NextAmounts]_vars

(* Any of the four contracts, freshly deployed, with the functions that
   change its configuration. *)
InitConfig ==
    /\ contract \in {"CoinFlip", "CoinFlipV2", "MonadFlip",
                     "MonadFlipWithCommitReveal"}
    /\ InitStorage
    /\ now = DeployTime

NextConfig ==
    \/ V2SetMinBet
    \/ V2SetMaxBet
    \/ V2TransferOwnership
    \/ V1SetMinBet
    \/ V1SetMaxBet
    \/ V1TransferOwnership
    \/ MSetBetLimits
    \/ MSetFeePercentage
    \/ MTransferOwnership
    \/ CRSetCommitmentTiming

SpecConfig == InitConfig /\ [][NextConfig]_vars

(* CoinFlipV2 with the component CoinFlip.tsx of its player, who may also bet
   from another session; logs may reach the watchers late or never. *)
NextFrontend ==
    \/ UIHandlePlaceBet
    \/ UIBetMined
    \/ UIWriteError
    \/ UIReceipt
    \/ UIConfirmationEffect
    \/ UIFallbackGameId
    \/ UIOnBetPlaced
    \/ UIOnGameResult
    \/ UIPoll
    \/ OtherSessionBet
    \/ V2Callback

SpecFrontend == InitV2 /\ [][NextFrontend]_vars

(* The component alone with CoinFlipV2, time passing and the player able to
   cancel; the component's own steps are taken whenever they stay possible,
   while logs may be lost. *)
NextAwait ==
    \/ UIHandlePlaceBet
    \/ UIBetMined
    \/ UIWriteError
    \/ UIReceipt
    \/ UIConfirmationEffect
    \/ UIFallbackGameId
    \/ UIOnGameResult
    \/ UIPoll
    \/ V2Callback
    \/ PlayerCancels
    \/ Tick

SpecAwait ==
    /\ InitV2
    /\ [][NextAwait]_vars
    /\ WF_vars(UIReceipt)
    /\ WF_vars(UIConfirmationEffect)
    /\ WF_vars(UIFallbackGameId)
    /\ WF_vars(UIPoll)

(* The step is a transaction sent to the contract (every step but Tick). *)
IsCall == blockNumber' = blockNumber

ResolveOps == {"entropyCallback", "revealResult"}
WithdrawOps == {"withdrawHouseFees", "emergencyWithdraw"}

(* The wager exists and is in the given state. *)
WagerIs(g, st) == games[g].player # Zero /\ games[g].state = st

(* C1: a wager is settled at most once: a Resolve delivered for a wager that
   is already Revealed is rejected, pays nothing and changes no state. *)
C1_SettledAtMostOnce ==
    [][ (IsCall /\ last'.op \in ResolveOps /\ WagerIs(last'.id, "Revealed"))
          => (~last'.ok /\ last'.amt = 0 /\ UNCHANGED ledger) ]_vars

(* C2: Resolve and Cancel exclude each other: a Cancelled wager is never
   resolved afterwards (its record stays as it is), and a cancelGame on a
   Revealed wager is rejected and refunds nothing. *)
C2_ResolveCancelExclusive ==
    [][ \A g \in GameIds :
          /\ WagerIs(g, "Cancelled") => games'[g] = games[g]
          /\ (WagerIs(g, "Revealed") /\ IsCall /\ last'.op = "cancelGame"
                /\ last'.id = g)
               => (~last'.ok /\ balance' = balance) ]_vars

(* C3: solvency: the potential payouts of all Pending wagers together are at
   most the contract balance minus the accumulated house fees. *)
C3_Solvency == PendingPayouts <= balance - houseFees

(* C4: placeBet is accepted only if the house covers the new wager's
   potential payout on top of those of all other Pending wagers, and a bet
   that is turned down for lack of house balance did not fit. *)
C4_ReserveOnPlaceBet ==
    [][ (IsCall /\ last'.op = "placeBet")
          => /\ last'.ok => PendingPayouts' <= balance' - houseFees'
             /\ last'.err \in { "InsufficientHouseBalance",
                                "Insufficient house balance for potential payout" }
                  => \A v \in BetValues :
                        PendingPayouts + PotentialPayout(v - EntropyFee)
                           > balance + (v - EntropyFee) - houseFees ]_vars

(* C5: a Resolve that makes the wager win never fails for lack of funds. *)
C5_PayoutNeverFails ==
    ~(last.op \in ResolveOps
        /\ last.err \in {"PayoutFailed", "Payout transfer failed"})

(* C6: cancelGame by the wager's player on a Pending wager older than one
   hour succeeds: the wager becomes Cancelled and the player is sent exactly
   the stake. *)
C6_CancelAfterTimeoutSucceeds ==
    [][ (IsCall /\ last'.op = "cancelGame" /\ WagerIs(last'.id, "Pending")
           /\ now > games[last'.id].timestamp + ONE_HOUR
           /\ last'.err \notin {"NotPlayer", "Only player can cancel their game"})
          => /\ last'.ok
             /\ games'[last'.id].state = "Cancelled"
             /\ last'.to = games[last'.id].player
             /\ last'.amt = games[last'.id].betAmount
             /\ balance' = balance - games[last'.id].betAmount ]_vars

(* C7: cancelGame is rejected whenever no more than one hour has passed since
   the wager's timestamp (exactly one hour included); the rejection leaves
   every wager as it was and moves no funds. *)
C7_CancelBeforeTimeoutRejected ==
    [][ (IsCall /\ last'.op = "cancelGame"
           /\ now <= games[last'.id].timestamp + ONE_HOUR)
          => (~last'.ok /\ last'.amt = 0 /\ UNCHANGED ledger) ]_vars

(* C7 witness: the wager's player asked to cancel a Pending wager exactly one
   hour after it was placed, and was turned down for the time. *)
C7_Witness ==
    /\ last.op = "cancelGame"
    /\ ~last.ok
    /\ last.err \in {"CannotCancelYet", "Cannot cancel game yet, wait 1 hour"}
    /\ WagerIs(last.id, "Pending")
    /\ now = games[last.id].timestamp + ONE_HOUR

(* C8: once a wager exists, a callback carrying a sequence number the oracle
   never issued is rejected and changes nothing. *)
C8_UnknownHandleRejected ==
    [][ (IsCall /\ last'.op = "entropyCallback" /\ gameIdCounter > 0
           /\ (last'.handle < FirstSequence \/ last'.handle >= nextSeq))
          => (~last'.ok /\ last'.amt = 0 /\ UNCHANGED ledger) ]_vars

(* C9: the contract holds at least the recorded house fees. *)
C9_BalanceCoversFees == balance >= houseFees

(* C10: an owner withdrawal takes no more than the accumulated house fees
   and leaves the stakes of the Pending wagers in the contract. *)
C10_WithdrawalsCapped ==
    [][ (IsCall /\ last'.op \in WithdrawOps /\ last'.ok)
          => (last'.amt <= houseFees /\ balance' >= PendingStakes') ]_vars

(* The stake and the limits of a wager: CoinFlip and CoinFlipV2 keep them in
   games, minBet and maxBet, MonadFlip in bets, minimumBet and maximumBet. *)
StakeOf(g, b, id) ==
    IF contract = "MonadFlip" THEN b[id].amount ELSE g[id].betAmount

LowerLimit == IF contract = "MonadFlip" THEN minimumBet ELSE minBet
UpperLimit == IF contract = "MonadFlip" THEN maximumBet ELSE maxBet

(* C11: every placeBet that is accepted records a positive stake (the value
   sent minus the oracle fee) that lies between the minimum and the maximum
   bet configured when it was accepted; a stake outside the limits is
   rejected. *)
C11_StakeWithinLimits ==
    [][ (IsCall /\ last'.op = "placeBet" /\ last'.ok)
          => LET stake == StakeOf(games', bets', last'.id) IN
             /\ stake > 0
             /\ LowerLimit <= stake
             /\ stake <= UpperLimit ]_vars

(* C12: a resolved wager records payout = stake + floor(stake * 90 / 100)
   when it won and payout = 0 when it lost, so a non-zero payout is on record
   only for a won wager, and the resolution sends the player exactly the
   recorded payout. *)
C12_PayoutRecorded ==
    [][ /\ \A g \in GameIds :
             (games'[g].player # Zero /\ games'[g].state = "Revealed")
               => games'[g].payout =
                     IF games'[g].won
                     THEN games'[g].betAmount
                            + ((games'[g].betAmount * 90) \div 100)
                     ELSE 0
        /\ (IsCall /\ last'.op \in ResolveOps /\ last'.ok)
             => /\ last'.amt = games'[last'.id].payout
                /\ last'.amt > 0 => last'.to = games'[last'.id].player
                /\ balance' = balance - last'.amt ]_vars

(* C13: every resolution, won or lost, adds exactly floor(stake * 5 / 100) to
   houseFees, and no other transaction increases houseFees. *)
C13_FeeOnEveryResolution ==
    [][ IF IsCall /\ last'.op \in ResolveOps /\ last'.ok
        THEN houseFees' = houseFees
                            + ((games[last'.id].betAmount * 5) \div 100)
        ELSE houseFees' <= houseFees ]_vars

(* C13 witness: the last transaction resolved a wager as won and the fee on
   its stake is in houseFees. *)
C13_Witness ==
    /\ last.op \in ResolveOps
    /\ last.ok
    /\ WagerIs(last.id, "Revealed")
    /\ games[last.id].won
    /\ games[last.id].betAmount >= 20
    /\ houseFees > 0

(* The outcome the random value r gives a wager with the given choice:
   result r mod 2 (0 is Heads, 1 is Tails), won exactly when the choice is
   that result. *)
OutcomeIs(choice, result, won, r) ==
    /\ result = r % 2
    /\ won = (choice = result)

(* C14: the outcome is a function of the random value and the choice.  Every
   resolution with random value r, in each of the three contracts, records
   result r mod 2 and won exactly when the wager's choice equals it; a won
   MonadFlip bet is recorded as won when its payout transfer has returned. *)
C14_OutcomeDetermined ==
    [][ \A r \in RandomNumbers :
          /\ \A s \in Seqs :
               (contract = "CoinFlipV2" /\ stack = << >> /\ last'.ok
                  /\ CoinFlipV2_entropyCallback_send(s, r))
                 => LET g == games'[sequenceToGameId[s]] IN
                    /\ g.state = "Revealed"
                    /\ OutcomeIs(g.playerChoice, g.result, g.won, r)
          /\ \A id \in GameIds :
               (contract = "CoinFlip" /\ last'.ok
                  /\ CoinFlip_revealResult_send(id, r))
                 => LET g == games'[id] IN
                    /\ g.state = "Revealed"
                    /\ OutcomeIs(g.playerChoice, g.result, g.won, r)
          /\ \A s \in Seqs :
               (contract = "MonadFlip" /\ stack = << >> /\ last'.ok
                  /\ MonadFlip_entropyCallback(s, r))
                 => IF stack' = << >>
                    THEN /\ bets'[s].isSettled
                         /\ OutcomeIs(bets'[s].guess, lastEvent'[s].result,
                                      bets'[s].won, r)
                    ELSE /\ OutcomeIs(bets[s].guess, Head(stack').result,
                                      Head(stack').won, r)
                         /\ Head(stack').won
          /\ (contract = "MonadFlip" /\ stack # << >> /\ stack' = Tail(stack))
                 => /\ bets'[Head(stack).handle].isSettled
                    /\ bets'[Head(stack).handle].won = Head(stack).won
                    /\ lastEvent'[Head(stack).handle].result
                          = Head(stack).result ]_vars

(* C14 witness: a wager on Tails (1) was resolved with the odd random value
   and is recorded as won with result Tails. *)
C14_Witness ==
    /\ last.op \in ResolveOps
    /\ last.ok
    /\ stack = << >>
    /\ IF contract = "MonadFlip"
       THEN /\ bets[last.id].isSettled
            /\ bets[last.id].guess = 1
            /\ bets[last.id].won
            /\ lastEvent[last.id].result = 1
       ELSE /\ WagerIs(last.id, "Revealed")
            /\ games[last.id].playerChoice = 1
            /\ games[last.id].result = 1
            /\ games[last.id].won

(* The step is a call of an owner function by someone who is not the owner,
   or a cancelGame by someone who is not the wager's player. *)
UnauthorizedCall ==
    \E sender \in Addresses :
       \/ /\ contract = "CoinFlipV2"
          /\ sender # owner
          /\ \/ \E a \in WithdrawAmounts :
                   CoinFlipV2_withdrawHouseFees(sender, a)
             \/ CoinFlipV2_emergencyWithdraw(sender)
             \/ \E m \in MinBetValues : CoinFlipV2_setMinBet(sender, m)
             \/ \E m \in MaxBetValues : CoinFlipV2_setMaxBet(sender, m)
             \/ \E a \in NewOwners : CoinFlipV2_transferOwnership(sender, a)
       \/ /\ contract = "CoinFlipV2"
          /\ \E g \in GameIds :
                sender # games[g].player /\ CoinFlipV2_cancelGame(sender, g)
       \/ /\ contract = "CoinFlip"
          /\ sender # owner
          /\ \/ \E a \in WithdrawAmounts :
                   CoinFlip_withdrawHouseFees(sender, a)
             \/ CoinFlip_emergencyWithdraw(sender)
             \/ \E m \in MinBetValues : CoinFlip_setMinBet(sender, m)
             \/ \E m \in MaxBetValues : CoinFlip_setMaxBet(sender, m)
             \/ \E a \in NewOwners : CoinFlip_transferOwnership(sender, a)
       \/ /\ contract = "CoinFlip"
          /\ \E g \in GameIds :
                sender # games[g].player /\ CoinFlip_cancelGame(sender, g)
       \/ /\ contract = "MonadFlip"
          /\ sender # owner
          /\ \/ \E a \in MonadWithdrawAmounts :
                   MonadFlip_withdrawFees(sender, a)
             \/ \E lo \in MinBetValues, hi \in MaxBetValues :
                   MonadFlip_setBetLimits(sender, lo, hi)
             \/ \E a \in NewOwners : MonadFlip_transferOwnership(sender, a)

(* C15: an unauthorized call is rejected and changes nothing: the wagers,
   houseFees, the limits, the owner and the balance stay as they were. *)
C15_UnauthorizedRejected ==
    [][ UnauthorizedCall
          => (~last'.ok /\ last'.amt = 0
                /\ UNCHANGED << ledger, oracle, monad, lastEvent >>) ]_vars

(* C15 witness: after the ownership went to alice, somebody else called
   transferOwnership and was turned down for not being the owner. *)
C15_Witness ==
    /\ owner = "alice"
    /\ last.op = "transferOwnership"
    /\ ~last.ok
    /\ last.err \in {"OnlyOwner", "Only owner can call this function"}

(* C16: a payout or refund transfer that fails rolls the whole call back: the
   wager is in the state it was in (a Pending wager stays Pending), houseFees
   and the balance are unchanged; and a Pending wager becomes Revealed as
   won, or Cancelled, only in a call that sends its player the payout, or the
   stake. *)
C16_TransferFailureRollsBack ==
    [][ /\ (IsCall /\ last'.err \in { "PayoutFailed", "Payout transfer failed",
                                      "RefundFailed", "Refund transfer failed" })
             => /\ UNCHANGED << ledger, oracle, monad, lastEvent >>
                /\ games[last'.id].state = "Pending"
                     => games'[last'.id].state = "Pending"
        /\ \A g \in GameIds :
             (games[g].state = "Pending" /\ games'[g].state # "Pending")
               => /\ last'.ok
                  /\ last'.id = g
                  /\ games'[g].state = "Cancelled"
                       => /\ last'.to = games[g].player
                          /\ last'.amt = games[g].betAmount
                          /\ balance' = balance - games[g].betAmount
                  /\ (games'[g].state = "Revealed" /\ games'[g].won)
                       => /\ last'.to = games[g].player
                          /\ last'.amt = games'[g].payout
                          /\ balance' = balance - games'[g].payout ]_vars

(* C16 witness: the refund of a Pending wager failed and the wager is still
   Pending. *)
C16_Witness ==
    /\ last.op = "cancelGame"
    /\ last.err \in {"RefundFailed", "Refund transfer failed"}
    /\ WagerIs(last.id, "Pending")
    /\ balance < games[last.id].betAmount

(* C17: while a payout or refund is being delivered, every Resolve or Cancel
   issued on the same wager before the transfer returns is rejected, pays
   nothing and changes nothing. *)
C17_NoReentrantSecondPayout ==
    [][ (stack # << >> /\ stack' = stack
           /\ last'.op \in ResolveOps \cup {"cancelGame"}
           /\ last'.id = Head(stack).id)
          => (~last'.ok /\ last'.amt = 0 /\ balance' = balance
                /\ UNCHANGED << games, bets, houseFees >>) ]_vars

(* C18: every call that sends funds has written all its changes to the
   contract's storage before the transfer: when the transfer returns, the
   call writes nothing more (but the release of the reentrancy lock). *)
C18_MutateThenTransfer ==
    [][ (stack # << >> /\ stack' = Tail(stack))
          => UNCHANGED << storage, activeBetsCount, bets, playerBets >> ]_vars

(* The wager state that an event announces. *)
StateAnnounced(e) ==
    CASE e.name = "BetPlaced" -> "Pending"
      [] e.name = "GameResult" -> "Revealed"
      [] e.name = "GameCancelled" -> "Cancelled"
      [] OTHER -> "None"

(* C19: for every wager, the state that getGame returns is the state that
   the last event emitted for the wager announces; a Cancelled wager has a
   cancellation event as its last event. *)
C19_EventsMatchState ==
    \A g \in GameIds :
       games[g].player # Zero
         => StateAnnounced(lastEvent[g]) = games[g].state

(* C20: a rejected placeBet changes nothing: the id counter, the wagers, the
   players' lists, the sequence number mapping, houseFees, the balance and
   the oracle's requests are as before. *)
C20_RejectedPlaceBetNoChange ==
    [][ (IsCall /\ last'.op = "placeBet" /\ ~last'.ok)
          => UNCHANGED << ledger, oracle, monad, lastEvent >> ]_vars

(* C20 witness: a placeBet was turned down for lack of house balance, after
   the house funds had gone down. *)
C20_Witness ==
    /\ last.op = "placeBet"
    /\ ~last.ok
    /\ last.err \in { "InsufficientHouseBalance",
                      "Insufficient house balance for potential payout" }
    /\ balance < InitialHouseFunds

(* The wagers on record: the ids whose game has a player. *)
Recorded == { g \in GameIds : games[g].player # Zero }

(* C21: wager ids are handed out in order and never reused: an accepted
   placeBet returns the id gameIdCounter, which had no wager, and advances the
   counter by one; no other call, a rejected placeBet included, changes the
   counter; so the wagers on record are always the ids 0 .. gameIdCounter - 1,
   as many as bets were accepted. *)
C21_IdsMonotonic ==
    [][ /\ IF IsCall /\ last'.op = "placeBet" /\ last'.ok
           THEN /\ last'.id = gameIdCounter
                /\ games[last'.id].player = Zero
                /\ games'[last'.id].player # Zero
                /\ gameIdCounter' = gameIdCounter + 1
                /\ \A g \in GameIds \ {last'.id} : games'[g] = games[g]
           ELSE /\ gameIdCounter' = gameIdCounter
                /\ \A g \in GameIds : games'[g].player = games[g].player
        /\ Recorded' = { g \in GameIds : g < gameIdCounter' }
        /\ Cardinality(Recorded') = gameIdCounter' ]_vars

(* C21 witness: the third accepted bet got id 2, after a rejected placeBet
   could have been sent at any point, and three wagers are on record. *)
C21_Witness ==
    /\ last.op = "placeBet"
    /\ last.ok
    /\ last.id = 2
    /\ gameIdCounter = 3
    /\ Recorded = {0, 1, 2}

(* The wager i is accepted, unresolved, and its stake is held by the
   contract; in CoinFlip and CoinFlipV2 its timeout has passed. *)
Stuck(i) ==
    IF contract = "MonadFlip"
    THEN bets[i].player # Zero /\ ~bets[i].isSettled
    ELSE /\ i \in GameIds
         /\ WagerIs(i, "Pending")
         /\ now > games[i].timestamp + ONE_HOUR

(* The wager i has reached a terminal state. *)
Terminal(i) ==
    IF contract = "MonadFlip"
    THEN bets[i].isSettled
    ELSE i \in GameIds /\ games[i].state \in {"Cancelled", "Revealed"}

(* C22: with the oracle down and the bettor asking for cancellation, every
   accepted wager whose timeout has passed eventually reaches a terminal
   state, in each of the three contracts. *)
C22_NoFundsLockedForever ==
    \A i \in Seqs : Stuck(i) ~> Terminal(i)

(* The step is a placeBet of MonadFlip, against the oracle that calls back
   at once, that passes every check placeBet makes itself. *)
ValidSyncBet(sender, c, u, v, r) ==
    /\ contract = "MonadFlip"
    /\ c \in {0, 1}
    /\ u # 0
    /\ minimumBet <= v /\ v <= maximumBet
    /\ ~paused /\ ~locked
    /\ activeBetsCount < maxConcurrentBets
    /\ v >= EntropyFee
    /\ balance + v >= calculatePayout(v - EntropyFee)
    /\ MonadFlip_placeBet_sync(sender, c, u, v, r)

(* C23: with the oracle that calls back inside requestWithCallback, a valid
   placeBet returns normally and the bet under the returned sequence number
   has the caller as player, the value less the oracle fee as amount, the
   caller's guess, and is settled. *)
C23_SyncPlaceBetSettles ==
    [][ \A sender \in Players, c \in Choices, u \in UserRandomness,
           v \in MonadBetValues, r \in RandomNumbers :
          ValidSyncBet(sender, c, u, v, r)
            => /\ last'.ok
               /\ bets'[last'.handle].player = sender
               /\ bets'[last'.handle].amount = v - EntropyFee
               /\ bets'[last'.handle].guess = c
               /\ bets'[last'.handle].isSettled ]_vars

(* C24: with the default fee of 1000 basis points, calculatePayout(b) is
   2b - floor(2b * 1000 / 10000) and strictly less than 2b, for every bet
   amount b > 0. *)
C24_PayoutBelowDouble ==
    (last.op = "calculatePayout")
      => LET b == last.id IN
         /\ last.amt = 2 * b - ((2 * b * DefaultFeePercentage) \div 10000)
         /\ last.amt < 2 * b

(* getPlayerGames(p), in MonadFlip getPlayerBets(p) *)
getPlayerGames(p) ==
    IF contract = "MonadFlip" THEN playerBets[p] ELSE playerGames[p]

(* The ids of the wagers accepted from p *)
WagersOf(p) ==
    IF contract = "MonadFlip"
    THEN { s \in Seqs : bets[s].player = p }
    ELSE { g \in GameIds : games[g].player = p }

(* The list has exactly the ids in ids, each once, in increasing order, which
   is the order in which the ids were handed out. *)
IsHistoryOf(list, ids) ==
    /\ { list[k] : k \in 1..Len(list) } = ids
    /\ Len(list) = Cardinality(ids)
    /\ \A j, k \in 1..Len(list) : j < k => list[j] < list[k]

(* C25: the list of a player's wagers is an append-only history: an accepted
   placeBet of p appends the new id to p's list, no other call (a resolution
   or a cancellation included) changes any list, and each list holds exactly
   the ids of the wagers accepted from its player, once each, in placement
   order. *)
C25_PlayerHistoryAppendOnly ==
    [][ \A p \in Addresses :
          /\ IF IsCall /\ last'.op = "placeBet" /\ last'.ok
                /\ last'.id \in WagersOf(p)'
             THEN getPlayerGames(p)' = Append(getPlayerGames(p), last'.id)
             ELSE getPlayerGames(p)' = getPlayerGames(p)
          /\ IsHistoryOf(getPlayerGames(p)', WagersOf(p)') ]_vars

(* C25 witness: a player has two wagers in the list, the first of them was
   resolved or cancelled by the last call, and the list still has both. *)
C25_Witness ==
    /\ \E p \in Players :
          /\ Len(getPlayerGames(p)) = 2
          /\ getPlayerGames(p)[1] = last.id
          /\ getPlayerGames(p)[1] < getPlayerGames(p)[2]
    /\ last.op \in ResolveOps \cup {"cancelGame"}
    /\ last.ok

(* The step is withdrawHouseFees(a) called by the owner. *)
OwnerWithdraws(a) ==
    \/ contract = "CoinFlipV2" /\ CoinFlipV2_withdrawHouseFees(owner, a)
    \/ contract = "CoinFlip" /\ CoinFlip_withdrawHouseFees(owner, a)

(* C26: withdrawHouseFees(a) by the owner succeeds exactly when a <= houseFees
   and a <= balance; then the owner receives a, and houseFees and the balance
   go down by a; when it is rejected nothing changes. *)
C26_WithdrawHouseFeesExact ==
    [][ \A a \in WithdrawAmounts :
          OwnerWithdraws(a)
            => /\ last'.ok <=> (a <= houseFees /\ a <= balance)
               /\ last'.ok
                    => /\ last'.to = owner
                       /\ last'.amt = a
                       /\ houseFees' = houseFees - a
                       /\ balance' = balance - a
                       /\ UNCHANGED << owner, minBet, maxBet, gameIdCounter,
                                       games, playerGames, sequenceToGameId >>
               /\ ~last'.ok
                    => UNCHANGED << ledger, oracle, monad, lastEvent >> ]_vars

(* C26 witness: the owner withdrew all of the fees earned on a resolved
   wager, and houseFees is 0 again. *)
C26_Witness ==
    /\ last.op = "withdrawHouseFees"
    /\ last.ok
    /\ last.to = owner
    /\ last.amt > 0
    /\ houseFees = 0
    /\ \E g \in GameIds : WagerIs(g, "Revealed")

(* The step is a call of a function that places a bet: placeBet, or
   revealAndPlaceBet of the commit-reveal extension. *)
BetAttempt ==
    \E c \in Choices, v \in MonadBetValues \cup RevealValues :
       \/ /\ contract = "MonadFlip"
          /\ \E u \in UserRandomness : MonadFlip_placeBet(Bettor, c, u, v)
       \/ /\ contract = "MonadFlipWithCommitReveal"
          /\ \E u \in UserRandomness : CommitReveal_placeBet(Bettor, c, u, v)
       \/ /\ contract = "MonadFlipWithCommitReveal"
          /\ \E r \in RevealRandomness, n \in RevealNonces :
                CommitReveal_revealAndPlaceBet(Bettor, c, r, n, v)

(* The step is emergencyWithdraw() called by a. *)
EmergencyWithdrawBy(a) ==
    MonadFlipDeployed /\ MonadFlip_emergencyWithdraw(a)

(* C27: while MonadFlip is paused no step records a new bet, and placeBet and
   revealAndPlaceBet are rejected without any change; emergencyWithdraw
   succeeds only while the contract is paused and only when the owner calls
   it. *)
C27_EmergencyControls ==
    [][ /\ paused
          => /\ \A i \in Seqs :
                  bets[i].player = Zero => bets'[i].player = Zero
             /\ playerBets' = playerBets
             /\ BetAttempt
                  => /\ ~last'.ok
                     /\ UNCHANGED << ledger, oracle, monad, lastEvent >>
        /\ \A a \in Addresses :
              (EmergencyWithdrawBy(a) /\ last'.ok)
                => /\ paused
                   /\ a = owner
                   /\ last'.to = owner
                   /\ balance' = 0 ]_vars

(* C27 witness: the owner paused the contract and withdrew the whole balance,
   and a reveal inside its window that matches the commitment was rejected
   because of the pause. *)
C27_Witness ==
    /\ paused
    /\ balance = 0
    /\ last.op = "revealAndPlaceBet"
    /\ last.err = "Contract is paused"
    /\ commitments[Bettor].commitment = keccak256(99, 5)
    /\ ~commitments[Bettor].revealed
    /\ now >= commitments[Bettor].timestamp + commitmentDuration
    /\ now <= commitments[Bettor].timestamp + revealDeadline

(* The caller holds an unrevealed commitment that is inside its reveal window
   and that the revealed values hash to. *)
HoldsCommitment(player, _randomness, _nonce) ==
    LET commitment == commitments[player] IN
    /\ commitment.timestamp # 0
    /\ ~commitment.revealed
    /\ commitment.timestamp + commitmentDuration <= now
    /\ now <= commitment.timestamp + revealDeadline
    /\ keccak256(_randomness, _nonce) = commitment.commitment

(* C28: in MonadFlipWithCommitReveal every step that records a bet is an
   accepted revealAndPlaceBet of a caller who holds an unrevealed commitment
   made at t with t + commitmentDuration <= now <= t + revealDeadline and
   equal to keccak256(randomness, nonce), and the step marks the commitment
   revealed; every other reveal and every direct placeBet is rejected and
   changes nothing. *)
C28_CommitWaitReveal ==
    [][ contract = "MonadFlipWithCommitReveal"
          => /\ \A i \in Seqs :
                  (bets[i].player = Zero /\ bets'[i].player # Zero)
                    => /\ last'.op = "revealAndPlaceBet"
                       /\ last'.ok
                       /\ last'.id = i
                       /\ commitments'[bets'[i].player].revealed
                       /\ \E r \in RevealRandomness, n \in RevealNonces :
                             /\ HoldsCommitment(bets'[i].player, r, n)
                             /\ \E c \in Choices, v \in RevealValues :
                                   CommitReveal_revealAndPlaceBet(
                                       bets'[i].player, c, r, n, v)
             /\ \A c \in Choices, v \in RevealValues :
                  /\ \A r \in RevealRandomness, n \in RevealNonces :
                        (/\ CommitReveal_revealAndPlaceBet(Bettor, c, r, n, v)
                         /\ ~HoldsCommitment(Bettor, r, n))
                          => /\ ~last'.ok
                             /\ UNCHANGED << ledger, oracle, monad,
                                             lastEvent >>
                  /\ \A u \in UserRandomness :
                        CommitReveal_placeBet(Bettor, c, u, v)
                          => /\ ~last'.ok
                             /\ UNCHANGED << ledger, oracle, monad,
                                             lastEvent >> ]_vars

(* C28 witness: a bet was recorded by a reveal made exactly when the wait
   after the commitment ended. *)
C28_Witness ==
    /\ contract = "MonadFlipWithCommitReveal"
    /\ last.op = "revealAndPlaceBet"
    /\ last.ok
    /\ bets[last.id].player = Bettor
    /\ ~bets[last.id].isSettled
    /\ commitments[Bettor].revealed
    /\ now = commitments[Bettor].timestamp + commitmentDuration

(* The recorded bets that are not settled yet. *)
UnsettledBets == { i \in Seqs : bets[i].player # Zero /\ ~bets[i].isSettled }

(* C29: in every reachable state of MonadFlip activeBetsCount is the number
   of recorded bets that are not settled yet, and that number is at most
   maxConcurrentBets. *)
C29_ActiveBetsBounded ==
    /\ activeBetsCount = Cardinality(UnsettledBets)
    /\ Cardinality(UnsettledBets) <= maxConcurrentBets

(* C30: while the reentrancy lock of MonadFlip or of its extension is held
   during the transfer of a payout, every call into the contract is rejected
   and changes nothing: the state changes again only when the transfer
   returns. *)
C30_LockGuardsEveryFunction ==
    [][ (locked /\ stack # << >> /\ stack' = stack)
          => /\ ~last'.ok
             /\ UNCHANGED << ledger, oracle, monad, lastEvent >> ]_vars

(* C31: an accepted Resolve of wager g that is won takes exactly the payout
   out of the contract balance and sends exactly that amount to the wager's
   player; one that is lost sends nothing and leaves the balance as it was;
   in both cases nothing changes but houseFees and the record of g. *)
C31_SettlementMovesPayout ==
    [][ (IsCall /\ last'.op \in ResolveOps /\ last'.ok)
          => LET g == last'.id
                 payout == Payout(games[g].betAmount)
             IN
             /\ games'[g].won
                  => /\ balance' = balance - payout
                     /\ last'.to = games[g].player
                     /\ last'.amt = payout
                     /\ games'[g].payout = payout
             /\ ~games'[g].won
                  => /\ balance' = balance
                     /\ last'.to = Zero
                     /\ last'.amt = 0
             /\ houseFees' = houseFees + Fee(games[g].betAmount)
             /\ \A h \in GameIds \ {g} : games'[h] = games[h]
             /\ UNCHANGED << owner, minBet, maxBet, gameIdCounter,
                             playerGames, sequenceToGameId, monad >> ]_vars

(* C31 witness: a won wager was resolved and its payout, stake plus 90 per
   cent, left the initial house funds plus the stake. *)
C31_Witness ==
    /\ last.op \in ResolveOps
    /\ last.ok
    /\ games[last.id].won
    /\ last.to = games[last.id].player
    /\ last.amt = Payout(games[last.id].betAmount)
    /\ last.amt > games[last.id].betAmount
    /\ balance = InitialHouseFunds + games[last.id].betAmount - last.amt

(* C32: a Resolve or Cancel of one wager leaves every other wager's record as
   it was; the player, stake, choice and timestamp of a recorded wager never
   change; and the record of a wager that is Revealed or Cancelled is never
   modified again. *)
C32_WagerRecordsFramed ==
    [][ \A g \in GameIds :
          games[g].player # Zero
            => /\ games'[g].player = games[g].player
               /\ games'[g].betAmount = games[g].betAmount
               /\ games'[g].playerChoice = games[g].playerChoice
               /\ games'[g].timestamp = games[g].timestamp
               /\ games[g].state \in {"Revealed", "Cancelled"}
                    => games'[g] = games[g]
               /\ (/\ IsCall
                   /\ last'.op \in ResolveOps \cup {"cancelGame"}
                   /\ last'.id # g)
                    => games'[g] = games[g] ]_vars

(* The step is revealAndPlaceBet called by the player. *)
RevealBy(player) ==
    /\ contract = "MonadFlipWithCommitReveal"
    /\ last'.op = "revealAndPlaceBet"
    /\ \E c \in Choices, r \in RevealRandomness, n \in RevealNonces,
          v \in RevealValues :
          CommitReveal_revealAndPlaceBet(player, c, r, n, v)

(* C33: a commitment backs at most one bet.  A reveal of a commitment that is
   already revealed is rejected; until more than revealDeadline has passed
   since a commitment was made no step replaces or deletes it or makes it
   unrevealed again; an accepted reveal marks it revealed and records one
   bet; a rejected reveal leaves every commitment as it was. *)
C33_CommitmentBacksOneBet ==
    [][ contract = "MonadFlipWithCommitReveal"
          => \A p \in Addresses :
               LET commitment == commitments[p] IN
               /\ (RevealBy(p) /\ commitment.revealed)
                    => /\ ~last'.ok
                       /\ UNCHANGED << ledger, oracle, monad, lastEvent >>
               /\ (/\ commitment.timestamp # 0
                   /\ now <= commitment.timestamp + revealDeadline)
                    => /\ commitments'[p].commitment = commitment.commitment
                       /\ commitments'[p].timestamp = commitment.timestamp
                       /\ commitment.revealed => commitments'[p].revealed
               /\ (RevealBy(p) /\ last'.ok)
                    => /\ ~commitment.revealed
                       /\ commitments'[p].revealed
                       /\ Len(playerBets'[p]) = Len(playerBets[p]) + 1
               /\ (RevealBy(p) /\ ~last'.ok)
                    => commitments' = commitments ]_vars

(* C33 witness: the bettor's commitment backs a recorded bet, and a second
   reveal of it with the same values was rejected. *)
C33_Witness ==
    /\ contract = "MonadFlipWithCommitReveal"
    /\ last.op = "revealAndPlaceBet"
    /\ last.err = "Already revealed"
    /\ commitments[Bettor].revealed
    /\ Len(playerBets[Bettor]) = 1
    /\ now <= commitments[Bettor].timestamp + revealDeadline

(* C34: for every stake the potential payout of placeBet's balance check,
   floor(s * 190 / 100), is the payout a won resolution of that stake sends,
   s + floor(s * 90 / 100). *)
C34_CheckedEqualsPaid ==
    [][ (last.op = "potentialPayout" /\ last'.op = "payout")
          => /\ last'.id = last.id
             /\ last.amt = (last.id * 190) \div 100
             /\ last'.amt = last.id + ((last.id * 90) \div 100)
             /\ last'.amt = last.amt ]_vars

(* C34 witness: for a stake of 119 wei, where both divisions round, both
   amounts are 226. *)
C34_Witness ==
    /\ last.op = "payout"
    /\ last.id = 119
    /\ last.amt = 226

(* C35: whatever the owner calls, the configuration stays well-formed:
   0 < minBet < maxBet in CoinFlip and CoinFlipV2, 0 < minimumBet < maximumBet
   and feePercentage <= 2000 in MonadFlip, 0 < commitmentDuration <
   revealDeadline in the commit-reveal extension, and the owner is never the
   zero address. *)
C35_ConfigurationWellFormed ==
    /\ 0 < minBet
    /\ minBet < maxBet
    /\ 0 < minimumBet
    /\ minimumBet < maximumBet
    /\ feePercentage <= 2000
    /\ 0 < commitmentDuration
    /\ commitmentDuration < revealDeadline
    /\ owner # Zero

(* C35 witness: a new owner of the commit-reveal extension has set the
   highest fee, new bet limits and a new window. *)
C35_Witness ==
    /\ contract = "MonadFlipWithCommitReveal"
    /\ owner = Bettor
    /\ feePercentage = 2000
    /\ minimumBet # DefaultMinimumBet
    /\ commitmentDuration = 1
    /\ revealDeadline = 3600
    /\ last.op = "setCommitmentTiming"
    /\ ~last.ok

(* The game the component is flipping for: the one its confirmed bet
   transaction created. *)
Awaiting(g) ==
    /\ isFlipping
    /\ transaction.status \in {"confirmed", "polling", "done"}
    /\ transaction.gameId = g

(* C36: while the component is flipping for game g, a GameResult log of
   another game h of the same player does not end the wait and is not shown
   as the result. *)
C36_ShowsAwaitedGame ==
    [][ \A g, h \in GameIds :
          (Awaiting(g) /\ h # g /\ UI_onGameResult(h))
            => /\ isFlipping'
               /\ statusMessage' = statusMessage ]_vars

(* The wager the component waits for has reached a terminal state on chain. *)
AwaitedDecided ==
    \E g \in GameIds :
       /\ Awaiting(g)
       /\ games[g].state \in {"Revealed", "Cancelled"}

(* C37: once the awaited wager is Revealed or Cancelled on chain, or the bet
   transaction has failed, the component eventually sets isFlipping to false,
   even when the GameResult log never reaches it. *)
C37_FlippingEnds ==
    ((AwaitedDecided \/ (isFlipping /\ transaction.status = "error"))
        ~> ~isFlipping)

=============================================================================
